---------------------------- MODULE Spec2Model ----------------------------
(***************************************************************************)
(* A model of the read path of mini-lsm: Block encode/decode and the       *)
(* BlockIterator (block.rs, block/iterator.rs), the SsTable and the        *)
(* SsTableIterator (table.rs, table/iterator.rs) and the MergeIterator     *)
(* (iterators/merge_iterator.rs).                                          *)
(*                                                                         *)
(* Keys and values are byte strings: sequences of numbers in 0..255,       *)
(* compared lexicographically as Rust compares [u8] slices.  Rust's        *)
(* zero-based half-open slices data[a..b] are written Slice(data, a, b).   *)
(*                                                                         *)
(* The write path is the MemTable (mem_table.rs) over crossbeam's SkipMap. *)
(*                                                                         *)
(* The specifications share the module, one per component:                 *)
(*   BlockSpec   a Block, its encoded bytes and a BlockIterator over the   *)
(*               decoded block;                                            *)
(*   SstSpec     an SsTable opened from a built file and an                *)
(*               SsTableIterator over it;                                  *)
(*   MergeSpec   a MergeIterator over vector-backed child iterators;       *)
(*   MergeBytesSpec  the same over children holding arbitrary bytes;       *)
(*   MemSpec     a MemTable shared by writer threads and a reader;         *)
(*   FileSpec    SsTable::open, find_block_idx and Block::decode over      *)
(*               files as built and files with a damaged count field;      *)
(*   CacheSpec   read_block_cached on tables that share a BlockCache.      *)
(* Each specification holds the other components' variables fixed.         *)
(***************************************************************************)
EXTENDS Integers, Sequences, FiniteSets, TLC

VARIABLES
    \* ---- BlockSpec
    records,      \* the (key, value) records the block was built from
    block,        \* the built Block: [data, offsets]
    encoded,      \* block.encode(), <<>> before the block is encoded
    decoded,      \* Block::decode(encoded), wrapped: <<>> or <<Block>>
    block_iter,   \* the BlockIterator over the decoded block: <<>> or <<it>>
    block_op,     \* the last positioning call and the next() calls since
    block_out,    \* the (key, value) pairs observed valid since that call
    \* ---- SstSpec
    sst_blocks,   \* the records the table was built from, block by block
    table,        \* the SsTable (Arc<SsTable>) under iteration
    sst_iter,     \* the SsTableIterator: <<>> or <<[table, blk_iter, blk_idx]>>
    sst_pc,       \* "start" | "ready" | "panic"
    sst_op,       \* the last positioning call and the next() calls since
    sst_out,      \* the (key, value) pairs observed valid since that call
    sst_reads,    \* the block indices the last call passed to read_block_cached
    \* ---- MergeSpec
    inputs,       \* the Vec<Box<I>> passed to MergeIterator::create
    iters,        \* MergeIterator.iters: the heap, as the set of its wrappers
    current,      \* MergeIterator.current: <<>> (None) or <<wrapper>> (Some)
    merge_pc,     \* "new" | "created" | "panic"
    merge_ret,    \* the result of the last next(): "none" | "ok" | "err"
    merge_out,    \* the (key, value) pairs observed valid, in order
    merge_failed, \* the children whose next() made the last next() return Err
    merge_calls,  \* the number of next() calls that returned Ok
    merge_pops,   \* the heap pops made by the loop of the last next()
    \* ---- MemSpec
    mem_map,      \* MemTable.map: the SkipMap, a function from its keys
    mem_size,     \* MemTable.approximate_size
    mem_pc,       \* per writer thread: where it is inside put
    mem_log,      \* per key, the value of the entry linked last: <<>> or <<v>>
    mem_returned, \* the puts that have returned: their number, bytes and keys
    mem_get,      \* the last get: its key, its result and what had happened
    mem_iter,     \* the reader's MemTableIterator: <<>> or <<it>>
    mem_scan,     \* the scan the iterator came from and the map it started on
    mem_out,      \* the (key, value) pairs observed valid since scan
    mem_flush,    \* flush: how it ended ("none" before) and what it added
    \* ---- FileSpec
    file_bytes,   \* the bytes of the SST file handed to SsTable::open
    file_fault,   \* how the file differs from the built one
    file_table,   \* the outcome of SsTable::open: <<>> or <<outcome>>
    file_find,    \* the last find_block_idx: its key and its result
    file_block,   \* the last Block::decode: its input and its outcome
    \* ---- CacheSpec
    cache_blocks, \* per table id, the records the table was built from
    cache_tables, \* per table id, the SsTable and whether it has the cache
    cache_map,    \* the BlockCache: a function from its (sst_id, block_idx) keys
    cache_last    \* the last read_block_cached: <<>> or <<its call and result>>

block_vars == <<records, block, encoded, decoded, block_iter, block_op, block_out>>
sst_vars   == <<sst_blocks, table, sst_iter, sst_pc, sst_op, sst_out, sst_reads>>
merge_vars == <<inputs, iters, current, merge_pc, merge_ret, merge_out,
                merge_failed, merge_calls, merge_pops>>
mem_vars   == <<mem_map, mem_size, mem_pc, mem_log, mem_returned, mem_get,
                mem_iter, mem_scan, mem_out, mem_flush>>
file_vars  == <<file_bytes, file_fault, file_table, file_find, file_block>>
cache_vars == <<cache_blocks, cache_tables, cache_map, cache_last>>
vars       == <<block_vars, sst_vars, merge_vars, mem_vars, file_vars, cache_vars>>

----------------------------------------------------------------------------
(* Byte strings                                                            *)

\* std::mem::size_of::<u16>()
SIZEOF_U16 == 2

\* std::mem::size_of::<u32>()
SIZEOF_U32 == 4

\* data[from..to], zero-based and half-open
Slice(data, from, to) ==
    SubSeq(data, from + 1, to)

\* BufMut::put_u16: big-endian, the value cut to 16 bits (`as u16`)
PutU16(n) ==
    << ((n % 65536) \div 256), (n % 256) >>

\* Buf::get_u16 on the slice data[at..]
GetU16(data, at) ==
    data[at + 1] * 256 + data[at + 2]

\* BufMut::put_u32: big-endian, the value cut to 32 bits (`as u32`)
PutU32(n) ==
    << ((n \div 16777216) % 256), ((n \div 65536) % 256),
       ((n \div 256) % 256), (n % 256) >>

\* Buf::get_u32 on the slice data[at..]
GetU32(data, at) ==
    data[at + 1] * 16777216 + data[at + 2] * 65536
        + data[at + 3] * 256 + data[at + 4]

\* Ord for [u8]: -1, 0 or 1 as a is less than, equal to or greater than b
RECURSIVE BytesCmp(_, _)
BytesCmp(a, b) ==
    IF a = <<>> /\ b = <<>> THEN 0
    ELSE IF a = <<>> THEN -1
    ELSE IF b = <<>> THEN 1
    ELSE IF Head(a) < Head(b) THEN -1
    ELSE IF Head(a) > Head(b) THEN 1
    ELSE BytesCmp(Tail(a), Tail(b))

\* the concatenation of a sequence of byte strings
RECURSIVE Concat(_)
Concat(ss) ==
    IF ss = <<>> THEN <<>> ELSE Head(ss) \o Concat(Tail(ss))

\* the strictly ascending sequences of at most n keys of `keys`, each key
\* paired with a value of `values`
AscendingRecords(keys, values, n) ==
    { s \in UNION { [1..m -> [key : keys, value : values]] : m \in 0..n } :
        \A i \in 1..(Len(s) - 1) : BytesCmp(s[i].key, s[i + 1].key) < 0 }

----------------------------------------------------------------------------
(* Block: block.rs                                                         *)

\* BlockBuilder (block/builder.rs is not part of the sources): the payload is
\* the records `u16 key_len | key | u16 value_len | value` in order, and
\* offsets[i] is the byte offset of record i in the payload.
BlockBuilder_record(r) ==
    PutU16(Len(r.key)) \o r.key \o PutU16(Len(r.value)) \o r.value

RECURSIVE BlockBuilder_offsets(_, _)
BlockBuilder_offsets(rs, at) ==
    IF rs = <<>> THEN <<>>
    ELSE <<at>> \o BlockBuilder_offsets(Tail(rs), at + Len(BlockBuilder_record(Head(rs))))

BlockBuilder_build(rs) ==
    [ data    |-> Concat([i \in 1..Len(rs) |-> BlockBuilder_record(rs[i])]),
      offsets |-> BlockBuilder_offsets(rs, 0) ]

\* A plausible slip of Block::encode: the offsets written little-endian.
Block_encode_LittleEndian(b) ==
    b.data
        \o Concat([i \in 1..Len(b.offsets) |->
                     << b.offsets[i] % 256, (b.offsets[i] % 65536) \div 256 >>])
        \o PutU16(Len(b.offsets))

\* Block::encode
Block_encode(b) ==
    b.data
        \o Concat([i \in 1..Len(b.offsets) |-> PutU16(b.offsets[i])])
        \o PutU16(Len(b.offsets))

\* Block::decode
Block_decode(data) ==
    LET num_of_elements == GetU16(data, Len(data) - SIZEOF_U16)
        data_end        == Len(data) - num_of_elements * SIZEOF_U16 - SIZEOF_U16
        offsets_raw     == Slice(data, data_end, Len(data) - SIZEOF_U16)
    IN  [ data    |-> Slice(data, 0, data_end),
          offsets |-> [i \in 1..(Len(offsets_raw) \div SIZEOF_U16) |->
                          GetU16(offsets_raw, (i - 1) * SIZEOF_U16)] ]

\* whether Block::decode panics: the subtraction of line 46 overflows (or, in
\* a release build, wraps and the slice of line 47 is out of range), or the
\* data are too short to hold the count
Block_decode_panics(data) ==
    \/ Len(data) < SIZEOF_U16
    \/ Len(data) - GetU16(data, Len(data) - SIZEOF_U16) * SIZEOF_U16 - SIZEOF_U16 < 0

----------------------------------------------------------------------------
(* BlockIterator: block/iterator.rs                                        *)

\* BlockIterator::new
BlockIterator_new(b) ==
    [ block |-> b, key |-> <<>>, value_range |-> <<0, 0>>, idx |-> 0,
      first_key |-> <<>> ]

\* BlockIterator::key
BlockIterator_key(it) ==
    it.key

\* BlockIterator::value
BlockIterator_value(it) ==
    Slice(it.block.data, it.value_range[1], it.value_range[2])

\* BlockIterator::is_valid
BlockIterator_is_valid(it) ==
    it.key # <<>>

\* BlockIterator::seek_to_idx
BlockIterator_seek_to_idx(it, idx) ==
    IF idx >= Len(it.block.offsets)
    THEN [it EXCEPT !.key = <<>>, !.value_range = <<0, 0>>]
    ELSE LET data       == it.block.data
             data_begin == it.block.offsets[idx + 1]
             key_len    == GetU16(data, data_begin)
             key_end    == data_begin + SIZEOF_U16 + key_len
             value_len  == GetU16(data, key_end)
         IN  [it EXCEPT
                !.key = Slice(data, data_begin + SIZEOF_U16, key_end),
                !.value_range = << key_end + SIZEOF_U16,
                                   key_end + SIZEOF_U16 + value_len >>]

\* BlockIterator::seek_to_first
BlockIterator_seek_to_first(it) ==
    LET at == BlockIterator_seek_to_idx([it EXCEPT !.idx = 0], 0)
    IN  IF at.first_key = <<>> THEN [at EXCEPT !.first_key = at.key] ELSE at

\* BlockIterator::next
BlockIterator_next(it) ==
    BlockIterator_seek_to_idx([it EXCEPT !.idx = it.idx + 1], it.idx + 1)

\* the while loop of BlockIterator::seek_to_key
RECURSIVE BlockIterator_seek_loop(_, _)
BlockIterator_seek_loop(it, key) ==
    IF ~BlockIterator_is_valid(it) THEN it
    ELSE IF BytesCmp(it.key, key) >= 0 THEN it
    ELSE BlockIterator_seek_loop(BlockIterator_next(it), key)

\* A plausible slip of BlockIterator::seek_to_key: the scan starts at the
\* iterator's position instead of at index 0.
BlockIterator_seek_to_key_FromHere(it, key) ==
    BlockIterator_seek_loop(BlockIterator_seek_to_idx(it, it.idx), key)

\* BlockIterator::seek_to_key
BlockIterator_seek_to_key(it, key) ==
    BlockIterator_seek_loop(
        BlockIterator_seek_to_idx([it EXCEPT !.idx = 0], 0), key)

\* BlockIterator::create_and_seek_to_first
BlockIterator_create_and_seek_to_first(b) ==
    BlockIterator_seek_to_first(BlockIterator_new(b))

\* BlockIterator::create_and_seek_to_key
BlockIterator_create_and_seek_to_key(b, key) ==
    BlockIterator_seek_to_key(BlockIterator_new(b), key)

----------------------------------------------------------------------------
(* SsTable: table.rs                                                       *)

\* BlockMeta::encode_block_meta, one meta
BlockMeta_encode_one(m) ==
    PutU32(m.offset)
        \o PutU16(Len(m.first_key)) \o m.first_key
        \o PutU16(Len(m.last_key)) \o m.last_key

\* BlockMeta::encode_block_meta
BlockMeta_encode_block_meta(block_meta) ==
    PutU32(Len(block_meta))
        \o Concat([i \in 1..Len(block_meta) |-> BlockMeta_encode_one(block_meta[i])])

\* the while loop of BlockMeta::decode_block_meta, reading from buffer[at..]
RECURSIVE BlockMeta_decode_loop(_, _)
BlockMeta_decode_loop(buffer, at) ==
    IF ~(at < Len(buffer)) THEN <<>>
    ELSE LET offset        == GetU32(buffer, at)
             first_key_len == GetU16(buffer, at + SIZEOF_U32)
             first_key_at  == at + SIZEOF_U32 + SIZEOF_U16
             last_key_len  == GetU16(buffer, first_key_at + first_key_len)
             last_key_at   == first_key_at + first_key_len + SIZEOF_U16
         IN  << [ offset    |-> offset,
                  first_key |-> Slice(buffer, first_key_at, first_key_at + first_key_len),
                  last_key  |-> Slice(buffer, last_key_at, last_key_at + last_key_len) ] >>
                 \o BlockMeta_decode_loop(buffer, last_key_at + last_key_len)

\* BlockMeta::decode_block_meta: the count is read and not used
BlockMeta_decode_block_meta(buf) ==
    BlockMeta_decode_loop(buf, SIZEOF_U32)

\* FileObject::read
FileObject_read(file, offset, len) ==
    Slice(file, offset, offset + len)

\* SsTable::open, on a table without a block cache (as open_for_test)
SsTable_open(id, file) ==
    LET file_len          == Len(file)
        raw_meta_offset   == FileObject_read(file, file_len - SIZEOF_U32, SIZEOF_U32)
        block_meta_offset == GetU32(raw_meta_offset, 0)
        raw_data          == FileObject_read(file, block_meta_offset,
                                 file_len - block_meta_offset - SIZEOF_U32)
        block_meta        == BlockMeta_decode_block_meta(raw_data)
    IN  [ file              |-> file,
          block_meta        |-> block_meta,
          block_meta_offset |-> block_meta_offset,
          id                |-> id,
          first_key |-> IF block_meta # <<>> THEN block_meta[1].first_key ELSE <<>>,
          last_key  |-> IF block_meta # <<>>
                        THEN block_meta[Len(block_meta)].last_key ELSE <<>> ]

\* SsTable::read_block: block_meta[block_idx] panics when block_idx is not
\* smaller than the number of blocks
SsTable_read_block_panics(t, block_idx) ==
    block_idx >= Len(t.block_meta)

\* SsTable::read_block
SsTable_read_block(t, block_idx) ==
    LET offset     == t.block_meta[block_idx + 1].offset
        end_offset == IF block_idx + 1 < Len(t.block_meta)
                      THEN t.block_meta[block_idx + 2].offset
                      ELSE t.block_meta_offset
        data_len   == end_offset - offset
    IN  Block_decode(FileObject_read(t.file, offset, data_len))

\* SsTable::read_block_cached, on a table without a block cache
SsTable_read_block_cached(t, block_idx) ==
    SsTable_read_block(t, block_idx)

\* The BlockCache (lsm_storage.rs is not part of the sources) is a function
\* from the keys it holds to their blocks.  try_get_with(key, init) returns
\* the block held under the key, and otherwise the block init returns, which
\* it then holds; an entry can leave the cache at any time.
BlockCache_new ==
    << >>

BlockCache_try_get_with(cache, key, init) ==
    IF key \in DOMAIN cache
    THEN [ block |-> cache[key], cache |-> cache ]
    ELSE [ block |-> init,
           cache |-> [ k \in DOMAIN cache \cup {key} |->
                         IF k = key THEN init ELSE cache[k] ] ]

BlockCache_invalidate(cache, key) ==
    [ k \in DOMAIN cache \ {key} |-> cache[k] ]

\* A plausible slip of SsTable::read_block_cached: the key has a constant in
\* the place of the table's id.
SsTable_read_block_cached_Some_KeyByIdx(t, block_cache, block_idx) ==
    BlockCache_try_get_with(block_cache, << 0, block_idx >>,
                            SsTable_read_block(t, block_idx))

\* SsTable::read_block_cached on a table whose block_cache is Some: the block
\* returned and the cache as it is left
SsTable_read_block_cached_Some(t, block_cache, block_idx) ==
    BlockCache_try_get_with(block_cache, << t.id, block_idx >>,
                            SsTable_read_block(t, block_idx))

\* the for loop of SsTable::find_block_idx over block_meta[at..]
RECURSIVE SsTable_find_block_idx_loop(_, _, _, _)
SsTable_find_block_idx_loop(block_meta, key, at, idx) ==
    IF at > Len(block_meta) THEN idx
    ELSE IF BytesCmp(block_meta[at].last_key, key) < 0
         THEN SsTable_find_block_idx_loop(block_meta, key, at + 1, idx + 1)
         ELSE idx

\* A plausible slip of SsTable::find_block_idx: the blocks are passed over by
\* their first key.
SsTable_find_block_idx_ByFirstKey(t, key) ==
    IF BytesCmp(t.first_key, key) > 0 \/ BytesCmp(t.last_key, key) < 0 THEN 0
    ELSE Cardinality({ i \in 1..Len(t.block_meta) :
                         BytesCmp(t.block_meta[i].first_key, key) < 0 })

\* SsTable::find_block_idx
SsTable_find_block_idx(t, key) ==
    IF BytesCmp(t.first_key, key) > 0 \/ BytesCmp(t.last_key, key) < 0 THEN 0
    ELSE SsTable_find_block_idx_loop(t.block_meta, key, 1, 0)

\* SsTableBuilder (table/builder.rs is not part of the sources): the file is
\* block_0 | ... | block_{n-1} | meta section | u32 block_meta_offset, with
\* one BlockMeta per block: its offset in the file, its first and last key.
RECURSIVE SsTableBuilder_metas(_, _)
SsTableBuilder_metas(blocks, at) ==
    IF blocks = <<>> THEN <<>>
    ELSE LET rs == Head(blocks)
         IN  << [ offset    |-> at,
                  first_key |-> rs[1].key,
                  last_key  |-> rs[Len(rs)].key ] >>
                 \o SsTableBuilder_metas(Tail(blocks),
                        at + Len(Block_encode(BlockBuilder_build(rs))))

SsTableBuilder_build(blocks) ==
    LET data == Concat([i \in 1..Len(blocks) |->
                           Block_encode(BlockBuilder_build(blocks[i]))])
    IN  data
            \o BlockMeta_encode_block_meta(SsTableBuilder_metas(blocks, 0))
            \o PutU32(Len(data))

----------------------------------------------------------------------------
(* SsTableIterator: table/iterator.rs                                      *)

\* the outcome of an operation: it panicked, or it returned Ok with the
\* iterator as `it`
Panicked == [ panic |-> TRUE ]

Returned(it) == [ panic |-> FALSE, it |-> it ]

\* SsTableIterator::key
SsTableIterator_key(it) ==
    BlockIterator_key(it.blk_iter)

\* SsTableIterator::value
SsTableIterator_value(it) ==
    BlockIterator_value(it.blk_iter)

\* SsTableIterator::is_valid
SsTableIterator_is_valid(it) ==
    BlockIterator_is_valid(it.blk_iter) \/ it.blk_idx < Len(it.table.block_meta)

\* SsTableIterator::create_and_seek_to_first
SsTableIterator_create_and_seek_to_first(t) ==
    LET blk_idx == 0
    IN  IF SsTable_read_block_panics(t, blk_idx) THEN Panicked
        ELSE Returned([ table    |-> t,
                        blk_iter |-> BlockIterator_create_and_seek_to_first(
                                         SsTable_read_block_cached(t, blk_idx)),
                        blk_idx  |-> blk_idx ])

\* SsTableIterator::seek_to_first
SsTableIterator_seek_to_first(it) ==
    IF SsTable_read_block_panics(it.table, 0) THEN Panicked
    ELSE Returned([it EXCEPT
                     !.blk_idx = 0,
                     !.blk_iter = BlockIterator_create_and_seek_to_first(
                                      SsTable_read_block_cached(it.table, 0))])

\* the binary search of SsTableIterator::seek_to_key: the left_index it ends
\* with, or -1 when `mid_index - 1` underflows
RECURSIVE SsTableIterator_seek_search(_, _, _, _)
SsTableIterator_seek_search(block_meta, key, left_index, right_index) ==
    IF ~(left_index < right_index) THEN left_index
    ELSE LET mid_index == left_index + (right_index - left_index) \div 2
             mid       == block_meta[mid_index + 1]
         IN  IF /\ BytesCmp(key, mid.first_key) >= 0
                /\ BytesCmp(key, mid.last_key) <= 0
             THEN mid_index
             ELSE IF BytesCmp(mid.first_key, key) < 0
             THEN SsTableIterator_seek_search(block_meta, key, mid_index + 1, right_index)
             ELSE IF mid_index = 0 THEN -1
             ELSE SsTableIterator_seek_search(block_meta, key, left_index, mid_index - 1)

\* A plausible slip of the in-range branch: no step to the next block when
\* the block found holds no key >= `key`.
SsTableIterator_seek_in_block_NoNextBlock(it, key, left_index) ==
    IF SsTable_read_block_panics(it.table, left_index) THEN Panicked
    ELSE Returned([it EXCEPT
                     !.blk_iter = BlockIterator_create_and_seek_to_key(
                         SsTable_read_block_cached(it.table, left_index), key)])

\* the in-range branch of SsTableIterator::seek_to_key once left_index is
\* found; blk_idx is left as it was
SsTableIterator_seek_in_block(it, key, left_index) ==
    IF SsTable_read_block_panics(it.table, left_index) THEN Panicked
    ELSE LET blk_iter == BlockIterator_create_and_seek_to_key(
                             SsTable_read_block_cached(it.table, left_index), key)
         IN  IF BlockIterator_is_valid(blk_iter)
             THEN Returned([it EXCEPT !.blk_iter = blk_iter])
             ELSE IF SsTable_read_block_panics(it.table, left_index + 1) THEN Panicked
             ELSE Returned([it EXCEPT
                              !.blk_iter = BlockIterator_create_and_seek_to_first(
                                  SsTable_read_block_cached(it.table, left_index + 1))])

\* SsTableIterator::seek_to_key
SsTableIterator_seek_to_key(it, key) ==
    LET t     == it.table
        below == BytesCmp(key, t.first_key) < 0
        above == BytesCmp(key, t.last_key) > 0
    IN  IF below \/ above
        THEN LET blk_idx == IF below THEN 0 ELSE it.blk_idx
             IN  IF SsTable_read_block_panics(t, blk_idx) THEN Panicked
                 ELSE Returned([it EXCEPT
                                  !.blk_idx = blk_idx,
                                  !.blk_iter = BlockIterator_create_and_seek_to_key(
                                      SsTable_read_block_cached(t, blk_idx), key)])
        ELSE IF Len(t.block_meta) = 0 THEN Panicked
        ELSE LET left_index == SsTableIterator_seek_search(
                                   t.block_meta, key, 0, Len(t.block_meta) - 1)
             IN  IF left_index < 0 THEN Panicked
                 ELSE SsTableIterator_seek_in_block(it, key, left_index)

\* SsTableIterator::create_and_seek_to_key
SsTableIterator_create_and_seek_to_key(t, key) ==
    LET first == SsTableIterator_create_and_seek_to_first(t)
    IN  IF first.panic THEN Panicked
        ELSE SsTableIterator_seek_to_key(first.it, key)

\* A plausible slip of SsTableIterator::next: blk_idx is not incremented
\* when the block is used up.
SsTableIterator_next_NoIncrement(it) ==
    LET stepped == [it EXCEPT !.blk_iter = BlockIterator_next(it.blk_iter)]
    IN  IF BlockIterator_is_valid(stepped.blk_iter) THEN stepped
        ELSE IF SsTableIterator_is_valid(stepped)
        THEN [stepped EXCEPT
                !.blk_iter = BlockIterator_create_and_seek_to_first(
                    SsTable_read_block_cached(stepped.table, stepped.blk_idx))]
        ELSE stepped

\* A plausible slip of SsTableIterator::next: the index of the block to load
\* is clamped to the last block instead of being checked by is_valid.
SsTableIterator_next_ReloadLast(it) ==
    LET stepped == [it EXCEPT !.blk_iter = BlockIterator_next(it.blk_iter)]
    IN  IF BlockIterator_is_valid(stepped.blk_iter) THEN stepped
        ELSE LET moved == [stepped EXCEPT !.blk_idx = stepped.blk_idx + 1]
                 last  == Len(moved.table.block_meta) - 1
                 load  == IF moved.blk_idx < last THEN moved.blk_idx ELSE last
             IN  IF last >= 0
                 THEN [moved EXCEPT
                         !.blk_iter = BlockIterator_create_and_seek_to_first(
                             SsTable_read_block_cached(moved.table, load))]
                 ELSE moved

\* SsTableIterator::next: the block read is guarded by is_valid, that is by
\* blk_idx < block_meta.len(), so it does not panic
SsTableIterator_next(it) ==
    LET stepped == [it EXCEPT !.blk_iter = BlockIterator_next(it.blk_iter)]
    IN  IF BlockIterator_is_valid(stepped.blk_iter) THEN stepped
        ELSE LET moved == [stepped EXCEPT !.blk_idx = stepped.blk_idx + 1]
             IN  IF SsTableIterator_is_valid(moved)
                 THEN [moved EXCEPT
                         !.blk_iter = BlockIterator_create_and_seek_to_first(
                             SsTable_read_block_cached(moved.table, moved.blk_idx))]
                 ELSE moved

\* The block indices an operation passes to read_block_cached, in the order
\* of its calls and up to the call that panics, if one does.

\* SsTableIterator::create_and_seek_to_first: line 33
SsTableIterator_create_and_seek_to_first_reads(t) ==
    << 0 >>

\* SsTableIterator::seek_to_first: line 45
SsTableIterator_seek_to_first_reads(it) ==
    << 0 >>

\* SsTableIterator::seek_to_key: line 80, or line 113 and then line 117
SsTableIterator_seek_to_key_reads(it, key) ==
    LET t     == it.table
        below == BytesCmp(key, t.first_key) < 0
        above == BytesCmp(key, t.last_key) > 0
    IN  IF below \/ above
        THEN << IF below THEN 0 ELSE it.blk_idx >>
        ELSE IF Len(t.block_meta) = 0 THEN <<>>
        ELSE LET left_index == SsTableIterator_seek_search(
                                   t.block_meta, key, 0, Len(t.block_meta) - 1)
             IN  IF left_index < 0 THEN <<>>
                 ELSE IF SsTable_read_block_panics(t, left_index)
                 THEN << left_index >>
                 ELSE IF BlockIterator_is_valid(
                             BlockIterator_create_and_seek_to_key(
                                 SsTable_read_block_cached(t, left_index), key))
                 THEN << left_index >>
                 ELSE << left_index, left_index + 1 >>

\* SsTableIterator::create_and_seek_to_key: line 54, then seek_to_key
SsTableIterator_create_and_seek_to_key_reads(t, key) ==
    LET first == SsTableIterator_create_and_seek_to_first(t)
    IN  IF first.panic THEN << 0 >>
        ELSE << 0 >> \o SsTableIterator_seek_to_key_reads(first.it, key)

\* SsTableIterator::next: line 152
SsTableIterator_next_reads(it) ==
    LET stepped == [it EXCEPT !.blk_iter = BlockIterator_next(it.blk_iter)]
        moved   == [stepped EXCEPT !.blk_idx = stepped.blk_idx + 1]
    IN  IF BlockIterator_is_valid(stepped.blk_iter) THEN <<>>
        ELSE IF SsTableIterator_is_valid(moved) THEN << moved.blk_idx >>
        ELSE <<>>

----------------------------------------------------------------------------
(* MergeIterator: iterators/merge_iterator.rs                              *)

\* The children are StorageIterators (iterators.rs is not part of the
\* sources): here a child is a cursor `pos` into a vector of entries, valid
\* while pos is within the vector, with an empty key when it is not, as the
\* iterators of this repository have.
Child_is_valid(c) ==
    c.pos <= Len(c.entries)

Child_key(c) ==
    IF Child_is_valid(c) THEN c.entries[c.pos].key ELSE <<>>

Child_value(c) ==
    IF Child_is_valid(c) THEN c.entries[c.pos].value ELSE <<>>

\* next() of a child: Err when the storage under it fails (`fails`), and
\* otherwise one step forward
Child_next(c, fails) ==
    IF fails THEN [ err |-> TRUE, iter |-> c ]
    ELSE [ err |-> FALSE, iter |-> [c EXCEPT !.pos = c.pos + 1] ]

\* whether String::from_utf8 accepts the bytes (RFC 3629)
RECURSIVE IsUtf8(_)
IsUtf8(b) ==
    IF b = <<>> THEN TRUE
    ELSE LET n       == Len(b)
             Cont(i) == i <= n /\ b[i] \in 128..191
             Rest(i) == IsUtf8(SubSeq(b, i, n))
         IN  IF b[1] < 128 THEN Rest(2)
             ELSE IF b[1] \in 194..223 THEN Cont(2) /\ Rest(3)
             ELSE IF b[1] = 224
             THEN n >= 2 /\ b[2] \in 160..191 /\ Cont(3) /\ Rest(4)
             ELSE IF b[1] \in (225..236) \cup (238..239)
             THEN Cont(2) /\ Cont(3) /\ Rest(4)
             ELSE IF b[1] = 237
             THEN n >= 2 /\ b[2] \in 128..159 /\ Cont(3) /\ Rest(4)
             ELSE IF b[1] = 240
             THEN n >= 2 /\ b[2] \in 144..191 /\ Cont(3) /\ Cont(4) /\ Rest(5)
             ELSE IF b[1] \in 241..243
             THEN Cont(2) /\ Cont(3) /\ Cont(4) /\ Rest(5)
             ELSE IF b[1] = 244
             THEN n >= 2 /\ b[2] \in 128..143 /\ Cont(3) /\ Cont(4) /\ Rest(5)
             ELSE FALSE

\* HeapWrapper(idx, iter): the tuple struct's fields .0 and .1
HeapWrapper(idx, iter) ==
    [ idx |-> idx, iter |-> iter ]

\* Ord for usize, as -1, 0 or 1
UsizeCmp(a, b) ==
    IF a < b THEN -1 ELSE IF a > b THEN 1 ELSE 0

\* A plausible slip of HeapWrapper::cmp: the `.reverse()` left out, so that
\* the max-heap hands out the largest key first.
HeapWrapper_cmp_NoReverse(a, b) ==
    LET by_key == BytesCmp(Child_key(a.iter), Child_key(b.iter))
    IN  IF by_key # 0 THEN by_key ELSE UsizeCmp(a.idx, b.idx)

\* A plausible slip of HeapWrapper::cmp: the indices compared the other way
\* round, so that among equal keys the largest index comes first.
HeapWrapper_cmp_LargerIndexFirst(a, b) ==
    LET by_key == BytesCmp(Child_key(a.iter), Child_key(b.iter))
    IN  0 - (IF by_key # 0 THEN by_key ELSE UsizeCmp(b.idx, a.idx))

\* HeapWrapper::cmp: by key, then by index, reversed
HeapWrapper_cmp(a, b) ==
    LET by_key == BytesCmp(Child_key(a.iter), Child_key(b.iter))
    IN  0 - (IF by_key # 0 THEN by_key ELSE UsizeCmp(a.idx, b.idx))

\* BinaryHeap::peek on a heap that is not empty: its greatest element
BinaryHeap_peek(heap) ==
    CHOOSE w \in heap : \A v \in heap : HeapWrapper_cmp(w, v) >= 0

\* heap.pop() into an Option: <<>> is None
BinaryHeap_pop(heap) ==
    IF heap = {} THEN [ iters |-> heap, current |-> <<>> ]
    ELSE [ iters   |-> heap \ { BinaryHeap_peek(heap) },
           current |-> << BinaryHeap_peek(heap) >> ]

\* A plausible slip of MergeIterator::create: current is popped from the
\* vector of wrappers, its last element, before the heap is built of the rest.
MergeIterator_create_PopVec(iters_vec) ==
    LET filter_vec == SelectSeq(iters_vec, Child_is_valid)
        n          == Len(filter_vec)
    IN  IF n = 0 THEN [ iters |-> {}, current |-> <<>> ]
        ELSE [ iters   |-> { HeapWrapper(i - 1, filter_vec[i]) : i \in 1..(n - 1) },
               current |-> << HeapWrapper(n - 1, filter_vec[n]) >> ]

\* MergeIterator::create
MergeIterator_create(iters_vec) ==
    IF iters_vec = <<>>
    THEN [ iters |-> {}, current |-> <<>> ]
    ELSE LET filter_vec == SelectSeq(iters_vec, Child_is_valid)
             iter_heap  == { HeapWrapper(i - 1, filter_vec[i]) :
                               i \in 1..Len(filter_vec) }
         IN  BinaryHeap_pop(iter_heap)

\* MergeIterator::is_valid
MergeIterator_is_valid(m) ==
    m.current # <<>> /\ Child_is_valid(m.current[1].iter)

\* MergeIterator::key
MergeIterator_key(m) ==
    Child_key(m.current[1].iter)

\* MergeIterator::value
MergeIterator_value(m) ==
    Child_value(m.current[1].iter)

\* A plausible slip of the loop of MergeIterator::next: a child on the
\* current key is put back as it is, its next() not called, and the loop
\* left.
RECURSIVE MergeIterator_next_loop_NoStep(_, _, _)
MergeIterator_next_loop_NoStep(heap, cur_key, failing) ==
    IF heap = {} THEN [ err |-> FALSE, iters |-> heap ]
    ELSE LET item == BinaryHeap_peek(heap)
             rest == heap \ {item}
         IN  IF ~Child_is_valid(item.iter)
             THEN MergeIterator_next_loop_NoStep(rest, cur_key, failing)
             ELSE IF cur_key = Child_key(item.iter)
             THEN [ err |-> FALSE, iters |-> heap ]
             ELSE IF Child_value(item.iter) = <<>>
             THEN MergeIterator_next_loop_NoStep(heap, Child_key(item.iter), failing)
             ELSE [ err |-> FALSE, iters |-> heap ]

\* A plausible slip of the loop of MergeIterator::next: the error of a child
\* is returned with `?` after the child was put back on the heap.
RECURSIVE MergeIterator_next_loop_KeepFailed(_, _, _)
MergeIterator_next_loop_KeepFailed(heap, cur_key, failing) ==
    IF heap = {} THEN [ err |-> FALSE, iters |-> heap ]
    ELSE LET item == BinaryHeap_peek(heap)
             rest == heap \ {item}
         IN  IF ~Child_is_valid(item.iter)
             THEN MergeIterator_next_loop_KeepFailed(rest, cur_key, failing)
             ELSE IF cur_key = Child_key(item.iter)
             THEN LET stepped == Child_next(item.iter, item.idx \in failing)
                  IN  IF stepped.err THEN [ err |-> TRUE, iters |-> heap ]
                      ELSE IF Child_is_valid(stepped.iter)
                      THEN MergeIterator_next_loop_KeepFailed(
                               rest \cup { HeapWrapper(item.idx, stepped.iter) },
                               cur_key, failing)
                      ELSE MergeIterator_next_loop_KeepFailed(rest, cur_key, failing)
             ELSE IF Child_value(item.iter) = <<>>
             THEN MergeIterator_next_loop_KeepFailed(heap, Child_key(item.iter), failing)
             ELSE [ err |-> FALSE, iters |-> heap ]

\* A plausible slip of the loop of MergeIterator::next: a child advanced past
\* the current key is not pushed back.
RECURSIVE MergeIterator_next_loop_NoPushBack(_, _, _)
MergeIterator_next_loop_NoPushBack(heap, cur_key, failing) ==
    IF heap = {} THEN [ err |-> FALSE, iters |-> heap ]
    ELSE LET item == BinaryHeap_peek(heap)
             rest == heap \ {item}
         IN  IF cur_key = Child_key(item.iter)
             THEN MergeIterator_next_loop_NoPushBack(rest, cur_key, failing)
             ELSE IF Child_value(item.iter) = <<>>
             THEN MergeIterator_next_loop_NoPushBack(heap, Child_key(item.iter), failing)
             ELSE [ err |-> FALSE, iters |-> heap ]

\* A plausible slip of the loop of MergeIterator::next: a tombstone on top of
\* the heap is stepped over alone, its key not adopted as the current key.
RECURSIVE MergeIterator_next_loop_NoAdopt(_, _, _)
MergeIterator_next_loop_NoAdopt(heap, cur_key, failing) ==
    IF heap = {} THEN [ err |-> FALSE, iters |-> heap ]
    ELSE LET item    == BinaryHeap_peek(heap)
             rest    == heap \ {item}
             stepped == Child_next(item.iter, item.idx \in failing)
             pushed  == IF Child_is_valid(stepped.iter)
                        THEN rest \cup { HeapWrapper(item.idx, stepped.iter) }
                        ELSE rest
         IN  IF ~Child_is_valid(item.iter)
             THEN MergeIterator_next_loop_NoAdopt(rest, cur_key, failing)
             ELSE IF cur_key = Child_key(item.iter)
             THEN IF stepped.err THEN [ err |-> TRUE, iters |-> rest ]
                  ELSE MergeIterator_next_loop_NoAdopt(pushed, cur_key, failing)
             ELSE IF Child_value(item.iter) = <<>>
             THEN MergeIterator_next_loop_NoAdopt(
                      IF stepped.err THEN rest ELSE pushed, cur_key, failing)
             ELSE [ err |-> FALSE, iters |-> heap ]

\* the loop of MergeIterator::next over the heap: whether it returned an
\* error, and the heap it leaves.  `failing` are the indices of the children
\* whose next() fails during this call.
RECURSIVE MergeIterator_next_loop(_, _, _)
MergeIterator_next_loop(heap, cur_key, failing) ==
    IF heap = {} THEN [ err |-> FALSE, iters |-> heap ]
    ELSE LET item == BinaryHeap_peek(heap)
             rest == heap \ {item}
         IN  IF ~Child_is_valid(item.iter)
             THEN MergeIterator_next_loop(rest, cur_key, failing)
             ELSE IF ~IsUtf8(Child_key(item.iter)) \/ ~IsUtf8(Child_value(item.iter))
             THEN [ err |-> TRUE, iters |-> rest ]
             ELSE IF cur_key = Child_key(item.iter)
             THEN LET stepped == Child_next(item.iter, item.idx \in failing)
                  IN  IF stepped.err THEN [ err |-> TRUE, iters |-> rest ]
                      ELSE IF Child_is_valid(stepped.iter)
                      THEN MergeIterator_next_loop(
                               rest \cup { HeapWrapper(item.idx, stepped.iter) },
                               cur_key, failing)
                      ELSE MergeIterator_next_loop(rest, cur_key, failing)
             ELSE IF Child_value(item.iter) = <<>>
             THEN MergeIterator_next_loop(heap, Child_key(item.iter), failing)
             ELSE [ err |-> FALSE, iters |-> heap ]

\* how often the loop of MergeIterator::next runs `self.iters.pop()` before
\* it is left, the pop that finds the heap empty included
RECURSIVE MergeIterator_next_loop_pops(_, _, _)
MergeIterator_next_loop_pops(heap, cur_key, failing) ==
    IF heap = {} THEN 1
    ELSE LET item == BinaryHeap_peek(heap)
             rest == heap \ {item}
         IN  IF ~Child_is_valid(item.iter)
             THEN 1 + MergeIterator_next_loop_pops(rest, cur_key, failing)
             ELSE IF ~IsUtf8(Child_key(item.iter)) \/ ~IsUtf8(Child_value(item.iter))
             THEN 1
             ELSE IF cur_key = Child_key(item.iter)
             THEN LET stepped == Child_next(item.iter, item.idx \in failing)
                  IN  IF stepped.err THEN 1
                      ELSE IF Child_is_valid(stepped.iter)
                      THEN 1 + MergeIterator_next_loop_pops(
                                   rest \cup { HeapWrapper(item.idx, stepped.iter) },
                                   cur_key, failing)
                      ELSE 1 + MergeIterator_next_loop_pops(rest, cur_key, failing)
             ELSE IF Child_value(item.iter) = <<>>
             THEN 1 + MergeIterator_next_loop_pops(heap, Child_key(item.iter), failing)
             ELSE 1

\* the same for a call of MergeIterator::next: none when the call ends
\* before the loop
MergeIterator_next_pops(m, failing) ==
    IF m.current = <<>> THEN 0
    ELSE LET cur_key == Child_key(m.current[1].iter)
         IN  IF ~IsUtf8(cur_key) THEN 0
             ELSE MergeIterator_next_loop_pops(
                      m.iters \cup { m.current[1] }, cur_key, failing)

\* MergeIterator::next on m = [iters, current]: "panic" when current is None
\* (the unwrap of line 97), else "err" or "ok" and the iterator it leaves
MergeIterator_next(m, failing) ==
    IF m.current = <<>> THEN [ ret |-> "panic", m |-> m ]
    ELSE LET cur_key == Child_key(m.current[1].iter)
         IN  IF ~IsUtf8(cur_key) THEN [ ret |-> "err", m |-> m ]
             ELSE LET looped == MergeIterator_next_loop(
                                    m.iters \cup { m.current[1] }, cur_key, failing)
                  IN  IF looped.err
                      THEN [ ret |-> "err",
                             m   |-> [ iters |-> looped.iters, current |-> <<>> ] ]
                      ELSE IF /\ looped.iters # {}
                              /\ Child_is_valid(BinaryHeap_peek(looped.iters).iter)
                      THEN [ ret |-> "ok", m |-> BinaryHeap_pop(looped.iters) ]
                      ELSE [ ret |-> "ok",
                             m   |-> [ iters |-> looped.iters, current |-> <<>> ] ]

----------------------------------------------------------------------------
(* MemTable: mem_table.rs, over crossbeam_skiplist::SkipMap                *)
(*                                                                         *)
(* The SkipMap is a function from the keys it holds to their values.       *)
(* SkipMap::insert replaces an entry in two steps that other threads can   *)
(* see apart ("If there is an existing entry with this key, it will be     *)
(* removed before inserting the new one"): it marks the node found under   *)
(* the key as removed and searches again, and links its new node only      *)
(* when the search finds no node under the key.                            *)

\* std::ops::Bound
Unbounded == [ kind |-> "Unbounded", key |-> <<>> ]

Included(key) == [ kind |-> "Included", key |-> key ]

Excluded(key) == [ kind |-> "Excluded", key |-> key ]

\* map_bound: the bound with its bytes copied
map_bound(bound) ==
    CASE bound.kind = "Included" -> Included(bound.key)
      [] bound.kind = "Excluded" -> Excluded(bound.key)
      [] bound.kind = "Unbounded" -> Unbounded

\* the map without the entry under `key` (its node marked as removed)
SkipMap_remove(map, key) ==
    [ k \in DOMAIN map \ {key} |-> map[k] ]

\* the map with a node for (key, value) linked in
SkipMap_link(map, key, value) ==
    [ k \in DOMAIN map \cup {key} |-> IF k = key THEN value ELSE map[k] ]

\* one round of the loops of SkipMap::insert: a node found under the key is
\* marked as removed and the search repeats; with no node under the key
\* the new node is linked
SkipMap_insert_round(map, key, value) ==
    IF key \in DOMAIN map
    THEN [ map |-> SkipMap_remove(map, key), linked |-> FALSE ]
    ELSE [ map |-> SkipMap_link(map, key, value), linked |-> TRUE ]

\* SkipMap::get: None is <<>>, Some(entry) is <<entry>>
SkipMap_get(map, key) ==
    IF key \in DOMAIN map THEN << [ key |-> key, value |-> map[key] ] >> ELSE <<>>

\* the smallest of a non-empty set of keys
SkipMap_min(keys) ==
    CHOOSE k \in keys : \A j \in keys : BytesCmp(k, j) <= 0

\* whether `key` satisfies a lower bound
AboveLowerBound(bound, key) ==
    CASE bound.kind = "Included" -> BytesCmp(key, bound.key) >= 0
      [] bound.kind = "Excluded" -> BytesCmp(key, bound.key) > 0
      [] bound.kind = "Unbounded" -> TRUE

BelowUpperBound_ExcludedAsIncluded(bound, key) ==
    CASE bound.kind = "Included" -> BytesCmp(key, bound.key) <= 0
      [] bound.kind = "Excluded" -> BytesCmp(key, bound.key) <= 0
      [] bound.kind = "Unbounded" -> TRUE

\* whether `key` satisfies an upper bound
BelowUpperBound(bound, key) ==
    CASE bound.kind = "Included" -> BytesCmp(key, bound.key) <= 0
      [] bound.kind = "Excluded" -> BytesCmp(key, bound.key) < 0
      [] bound.kind = "Unbounded" -> TRUE

\* Range::next of the SkipMap on an iterator whose head is `head` (<<>>
\* before the first entry, else <<key>>): the first entry of the map after
\* the head, or at the lower bound, if it is below the upper bound
SkipMap_Range_next(map, lower, upper, head) ==
    LET after == { k \in DOMAIN map :
                     IF head = <<>> THEN AboveLowerBound(lower, k)
                     ELSE BytesCmp(k, head[1]) > 0 }
    IN  IF after = {} THEN <<>>
        ELSE LET k == SkipMap_min(after)
             IN  IF BelowUpperBound(upper, k) THEN SkipMap_get(map, k) ELSE <<>>

\* MemTable::get
MemTable_get(map, key) ==
    LET entry == SkipMap_get(map, key)
    IN  IF entry = <<>> THEN <<>> ELSE << entry[1].value >>

MemTable_put_size_KeyOnly(key, value) ==
    Len(key)

\* the amount MemTable::put adds to approximate_size
MemTable_put_size(key, value) ==
    Len(key) + Len(value)

\* MemTableIterator::entry_to_item
MemTableIterator_entry_to_item(entry) ==
    IF entry = <<>> THEN [ key |-> <<>>, value |-> <<>> ]
    ELSE [ key |-> entry[1].key, value |-> entry[1].value ]

\* MemTableIterator::key
MemTableIterator_key(it) == it.item.key

\* MemTableIterator::value
MemTableIterator_value(it) == it.item.value

\* MemTableIterator::is_valid
MemTableIterator_is_valid(it) == it.item.key # <<>>

\* MemTableIterator::next, over the map as it is when next runs
MemTableIterator_next(map, it) ==
    LET entry == SkipMap_Range_next(map, it.lower, it.upper, it.head)
    IN  [ it EXCEPT !.head = IF entry = <<>> THEN <<>> ELSE << entry[1].key >>,
                    !.item = MemTableIterator_entry_to_item(entry) ]

\* MemTable::scan
MemTable_scan(map, lower, upper) ==
    MemTableIterator_next(map,
        [ lower |-> map_bound(lower),
          upper |-> map_bound(upper),
          head  |-> <<>>,
          item  |-> [ key |-> <<>>, value |-> <<>> ] ])

\* MemTable::flush: unimplemented!()
MemTable_flush(map) ==
    [ ret |-> "panic", added |-> <<>> ]

----------------------------------------------------------------------------
(* BlockSpec: a block is built, encoded, decoded and iterated              *)

\* the most records a block of BlockSpec holds
MaxRecords == 2

\* how many next() calls past the end of a block or table are explored
MaxPastEnd == 1

\* "a", "ab", "b"
BlockKeys == { <<97>>, <<97, 98>>, <<98>> }

\* the keys sought: the stored ones, "`" below them all, "aa" between "a"
\* and "ab", "c" above them all
BlockSeekKeys == BlockKeys \cup { <<96>>, <<97, 97>>, <<99>> }

\* "", "x", "yz"
BlockValues == { <<>>, <<120>>, <<121, 122>> }

NoOp == [ op |-> "none", key |-> <<>>, nexts |-> 0, from_idx |-> 0 ]

\* what a caller looping `while it.is_valid()` reads from a BlockIterator
BlockObserve(it, out) ==
    IF BlockIterator_is_valid(it)
    THEN Append(out, [ key   |-> BlockIterator_key(it),
                       value |-> BlockIterator_value(it) ])
    ELSE out

BlockIdle ==
    /\ records = <<>>
    /\ block = [ data |-> <<>>, offsets |-> <<>> ]
    /\ encoded = <<>>
    /\ decoded = <<>>
    /\ block_iter = <<>>
    /\ block_op = NoOp
    /\ block_out = <<>>

BlockInit ==
    /\ records \in AscendingRecords(BlockKeys, BlockValues, MaxRecords)
    /\ block = BlockBuilder_build(records)
    /\ encoded = <<>>
    /\ decoded = <<>>
    /\ block_iter = <<>>
    /\ block_op = NoOp
    /\ block_out = <<>>

\* block.encode()
BlockEncode ==
    /\ encoded = <<>>
    /\ encoded' = Block_encode(block)
    /\ UNCHANGED <<records, block, decoded, block_iter, block_op, block_out>>
    /\ UNCHANGED <<sst_vars, merge_vars, mem_vars, file_vars, cache_vars>>

\* Block::decode(&encoded)
BlockDecode ==
    /\ encoded # <<>>
    /\ decoded = <<>>
    /\ decoded' = << Block_decode(encoded) >>
    /\ UNCHANGED <<records, block, encoded, block_iter, block_op, block_out>>
    /\ UNCHANGED <<sst_vars, merge_vars, mem_vars, file_vars, cache_vars>>

\* BlockIterator::create_and_seek_to_first(decoded)
BlockCreateAndSeekToFirst ==
    /\ decoded # <<>>
    /\ block_iter = <<>>
    /\ LET it == BlockIterator_create_and_seek_to_first(decoded[1])
       IN  /\ block_iter' = <<it>>
           /\ block_out' = BlockObserve(it, <<>>)
    /\ block_op' = [ op |-> "first", key |-> <<>>, nexts |-> 0, from_idx |-> 0 ]
    /\ UNCHANGED <<records, block, encoded, decoded>>
    /\ UNCHANGED <<sst_vars, merge_vars, mem_vars, file_vars, cache_vars>>

\* BlockIterator::create_and_seek_to_key(decoded, key)
BlockCreateAndSeekToKey(key) ==
    /\ decoded # <<>>
    /\ block_iter = <<>>
    /\ LET it == BlockIterator_create_and_seek_to_key(decoded[1], key)
       IN  /\ block_iter' = <<it>>
           /\ block_out' = BlockObserve(it, <<>>)
    /\ block_op' = [ op |-> "key", key |-> key, nexts |-> 0, from_idx |-> 0 ]
    /\ UNCHANGED <<records, block, encoded, decoded>>
    /\ UNCHANGED <<sst_vars, merge_vars, mem_vars, file_vars, cache_vars>>

\* block_iter.seek_to_first()
BlockSeekToFirst ==
    /\ block_iter # <<>>
    /\ LET it == BlockIterator_seek_to_first(block_iter[1])
       IN  /\ block_iter' = <<it>>
           /\ block_out' = BlockObserve(it, <<>>)
    /\ block_op' = [ op |-> "first", key |-> <<>>, nexts |-> 0,
                     from_idx |-> block_iter[1].idx ]
    /\ UNCHANGED <<records, block, encoded, decoded>>
    /\ UNCHANGED <<sst_vars, merge_vars, mem_vars, file_vars, cache_vars>>

\* block_iter.seek_to_key(key)
BlockSeekToKey(key) ==
    /\ block_iter # <<>>
    /\ LET it == BlockIterator_seek_to_key(block_iter[1], key)
       IN  /\ block_iter' = <<it>>
           /\ block_out' = BlockObserve(it, <<>>)
    /\ block_op' = [ op |-> "key", key |-> key, nexts |-> 0,
                     from_idx |-> block_iter[1].idx ]
    /\ UNCHANGED <<records, block, encoded, decoded>>
    /\ UNCHANGED <<sst_vars, merge_vars, mem_vars, file_vars, cache_vars>>

\* block_iter.next()
BlockNext ==
    /\ block_iter # <<>>
    /\ block_iter[1].idx < Len(block_iter[1].block.offsets) + MaxPastEnd
    /\ LET it == BlockIterator_next(block_iter[1])
       IN  /\ block_iter' = <<it>>
           /\ block_out' = BlockObserve(it, block_out)
    /\ block_op' = [ block_op EXCEPT !.nexts = block_op.nexts + 1 ]
    /\ UNCHANGED <<records, block, encoded, decoded>>
    /\ UNCHANGED <<sst_vars, merge_vars, mem_vars, file_vars, cache_vars>>

\* the records at or after `key`, in order
RecordsFrom(rs, key) ==
    SelectSeq(rs, LAMBDA r : BytesCmp(r.key, key) >= 0)

IsPrefix(s, t) ==
    /\ Len(s) <= Len(t)
    /\ SubSeq(t, 1, Len(s)) = s

\* C9: Block::decode(block.encode()) has the payload and the offsets of the
\* block, and a BlockIterator over the decoded block, from seek_to_first by
\* next() until it is invalid, reads exactly the records the block was built
\* from, in order, those with an empty value included.
C9_BlockRoundTrip ==
    /\ decoded # <<>> =>
          /\ decoded[1].data = block.data
          /\ decoded[1].offsets = block.offsets
    /\ (block_iter # <<>> /\ block_op.op = "first") =>
          /\ IsPrefix(block_out, records)
          /\ BlockIterator_is_valid(block_iter[1]) =>
                /\ Len(block_out) = block_op.nexts + 1
                /\ block_out[Len(block_out)].key = BlockIterator_key(block_iter[1])
          /\ ~BlockIterator_is_valid(block_iter[1]) => block_out = records

C9_Witness ==
    /\ block_iter # <<>>
    /\ block_op.op = "first"
    /\ ~BlockIterator_is_valid(block_iter[1])
    /\ Len(records) >= 2
    /\ records[1].value = <<>>
    /\ records[2].value # <<>>
    /\ block_out = records
    /\ decoded[1] = block

\* C10: after BlockIterator seek_to_key(k), from whatever position, the
\* iterator is at the first record whose key is >= k, and it is invalid
\* exactly when every key of the block is < k (or the block is empty).
C10_BlockSeekToKey ==
    (block_iter # <<>> /\ block_op.op = "key" /\ block_op.nexts = 0) =>
        LET it   == block_iter[1]
            hits == { i \in 1..Len(records) :
                        BytesCmp(records[i].key, block_op.key) >= 0 }
        IN  /\ BlockIterator_is_valid(it) <=> hits # {}
            /\ hits # {} =>
                  LET first == CHOOSE i \in hits : \A j \in hits : i <= j
                  IN  /\ it.idx = first - 1
                      /\ BlockIterator_key(it) = records[first].key
                      /\ BlockIterator_value(it) = records[first].value

C10_Witness ==
    /\ block_iter # <<>>
    /\ block_op.op = "key"
    /\ block_op.nexts = 0
    /\ block_op.from_idx = 2
    /\ Len(records) = 2
    /\ block_iter[1].idx = 1
    /\ BytesCmp(BlockIterator_key(block_iter[1]), block_op.key) > 0

----------------------------------------------------------------------------
(* SstSpec: a table is built, opened and iterated                          *)

\* the most blocks a table of SstSpec holds
MaxBlocks == 3

\* the most records a block of a table of SstSpec holds
MaxBlockRecords == 2

\* "b", "c", "cc", "d", "e"
SstKeys == { <<98>>, <<99>>, <<99, 99>>, <<100>>, <<101>> }

\* the keys sought: the stored ones, "a" below them all, "f" above them all
SstSeekKeys == SstKeys \cup { <<97>>, <<102>> }

\* the value stored under a key: "" under "cc", "v" and the key otherwise
SstValueOf(key) ==
    IF Len(key) > 1 THEN <<>> ELSE <<118>> \o key

\* the records of a set of keys, in ascending key order
RECURSIVE SstRecordsOf(_)
SstRecordsOf(keys) ==
    IF keys = {} THEN <<>>
    ELSE LET least == CHOOSE k \in keys : \A j \in keys : BytesCmp(k, j) <= 0
         IN  << [ key |-> least, value |-> SstValueOf(least) ] >>
                 \o SstRecordsOf(keys \ {least})

\* rs[from..] cut into blocks after each position of `cuts`
RECURSIVE SstSplit(_, _, _)
SstSplit(rs, cuts, from) ==
    IF from > Len(rs) THEN <<>>
    ELSE LET ends == { c \in cuts \cup {Len(rs)} : c >= from }
             end  == CHOOSE c \in ends : \A d \in ends : c <= d
         IN  << SubSeq(rs, from, end) >> \o SstSplit(rs, cuts, end + 1)

\* the tables of SstSpec: every set of keys, cut into blocks every way that
\* keeps within MaxBlocks blocks of MaxBlockRecords records
SstInputs ==
    { blocks \in UNION { { SstSplit(SstRecordsOf(keys), cuts, 1) :
                             cuts \in SUBSET (1..(Cardinality(keys) - 1)) } :
                         keys \in SUBSET SstKeys } :
        /\ Len(blocks) <= MaxBlocks
        /\ \A i \in 1..Len(blocks) : Len(blocks[i]) <= MaxBlockRecords }

\* the records of the table, in order
SstStored ==
    Concat(sst_blocks)

\* what a caller looping `while it.is_valid()` reads from an SsTableIterator
SstObserve(it, out) ==
    IF SsTableIterator_is_valid(it)
    THEN Append(out, [ key   |-> SsTableIterator_key(it),
                       value |-> SsTableIterator_value(it) ])
    ELSE out

SstInit ==
    /\ sst_blocks \in SstInputs
    /\ table = SsTable_open(0, SsTableBuilder_build(sst_blocks))
    /\ sst_iter = <<>>
    /\ sst_pc = "start"
    /\ sst_op = NoOp
    /\ sst_out = <<>>
    /\ sst_reads = <<>>

\* the iterator after a positioning call that panicked or returned
SstPositioned(res) ==
    IF res.panic
    THEN /\ sst_pc' = "panic"
         /\ UNCHANGED <<sst_iter, sst_out>>
    ELSE /\ sst_pc' = "ready"
         /\ sst_iter' = << res.it >>
         /\ sst_out' = SstObserve(res.it, <<>>)

\* SsTableIterator::create_and_seek_to_first(table)
SstCreateAndSeekToFirst ==
    /\ sst_pc = "start"
    /\ SstPositioned(SsTableIterator_create_and_seek_to_first(table))
    /\ sst_reads' = SsTableIterator_create_and_seek_to_first_reads(table)
    /\ sst_op' = [ op |-> "first", key |-> <<>>, nexts |-> 0, from_idx |-> 0 ]
    /\ UNCHANGED <<sst_blocks, table>>
    /\ UNCHANGED <<block_vars, merge_vars, mem_vars, file_vars, cache_vars>>

\* SsTableIterator::create_and_seek_to_key(table, key)
SstCreateAndSeekToKey(key) ==
    /\ sst_pc = "start"
    /\ SstPositioned(SsTableIterator_create_and_seek_to_key(table, key))
    /\ sst_reads' = SsTableIterator_create_and_seek_to_key_reads(table, key)
    /\ sst_op' = [ op |-> "key", key |-> key, nexts |-> 0, from_idx |-> 0 ]
    /\ UNCHANGED <<sst_blocks, table>>
    /\ UNCHANGED <<block_vars, merge_vars, mem_vars, file_vars, cache_vars>>

\* sst_iter.seek_to_first()
SstSeekToFirst ==
    /\ sst_pc = "ready"
    /\ SstPositioned(SsTableIterator_seek_to_first(sst_iter[1]))
    /\ sst_reads' = SsTableIterator_seek_to_first_reads(sst_iter[1])
    /\ sst_op' = [ op |-> "first", key |-> <<>>, nexts |-> 0,
                   from_idx |-> sst_iter[1].blk_idx ]
    /\ UNCHANGED <<sst_blocks, table>>
    /\ UNCHANGED <<block_vars, merge_vars, mem_vars, file_vars, cache_vars>>

\* sst_iter.seek_to_key(key)
SstSeekToKey(key) ==
    /\ sst_pc = "ready"
    /\ SstPositioned(SsTableIterator_seek_to_key(sst_iter[1], key))
    /\ sst_reads' = SsTableIterator_seek_to_key_reads(sst_iter[1], key)
    /\ sst_op' = [ op |-> "key", key |-> key, nexts |-> 0,
                   from_idx |-> sst_iter[1].blk_idx ]
    /\ UNCHANGED <<sst_blocks, table>>
    /\ UNCHANGED <<block_vars, merge_vars, mem_vars, file_vars, cache_vars>>

\* sst_iter.next()
SstNext ==
    /\ sst_pc = "ready"
    /\ sst_iter[1].blk_idx < Len(table.block_meta) + MaxPastEnd
    /\ LET it == SsTableIterator_next(sst_iter[1])
       IN  /\ sst_iter' = <<it>>
           /\ sst_out' = SstObserve(it, sst_out)
    /\ sst_op' = [ sst_op EXCEPT !.nexts = sst_op.nexts + 1 ]
    /\ sst_reads' = SsTableIterator_next_reads(sst_iter[1])
    /\ UNCHANGED <<sst_blocks, table, sst_pc>>
    /\ UNCHANGED <<block_vars, merge_vars, mem_vars, file_vars, cache_vars>>

\* the least i with rs[i].key >= key, or 0 when there is none
FirstAtOrAfter(rs, key) ==
    LET hits == { i \in 1..Len(rs) : BytesCmp(rs[i].key, key) >= 0 }
    IN  IF hits = {} THEN 0 ELSE CHOOSE i \in hits : \A j \in hits : i <= j

\* C5: after seek_to_key(k) or create_and_seek_to_key(table, k) on a table
\* of several blocks, next() until the iterator is invalid reads exactly the
\* records with key >= k, in ascending order, each once.  Stated for
\* k <= last_key; C7 is about the keys above last_key.
C5_SstSeekThenScan ==
    ( /\ sst_pc = "ready"
      /\ sst_op.op = "key"
      /\ Len(table.block_meta) >= 2
      /\ BytesCmp(sst_op.key, table.last_key) <= 0 ) =>
        /\ IsPrefix(sst_out, RecordsFrom(SstStored, sst_op.key))
        /\ ~SsTableIterator_is_valid(sst_iter[1]) =>
              sst_out = RecordsFrom(SstStored, sst_op.key)

\* C6: on a table of at least one block and for k <= last_key, after
\* seek_to_key(k) the iterator is valid and key() is the smallest stored key
\* that is >= k.
C6_SstSeekToKey ==
    ( /\ sst_op.op = "key"
      /\ sst_op.nexts = 0
      /\ Len(table.block_meta) >= 1
      /\ BytesCmp(sst_op.key, table.last_key) <= 0 ) =>
        /\ sst_pc = "ready"
        /\ SsTableIterator_is_valid(sst_iter[1])
        /\ LET first == FirstAtOrAfter(SstStored, sst_op.key)
           IN  /\ first > 0
               /\ SsTableIterator_key(sst_iter[1]) = SstStored[first].key
               /\ SsTableIterator_value(sst_iter[1]) = SstStored[first].value

\* a seek into the gap between the first two of three blocks, from an
\* iterator that had run to the end
C6_Witness ==
    /\ sst_pc = "ready"
    /\ sst_op.op = "key"
    /\ sst_op.nexts = 0
    /\ sst_op.from_idx = 3
    /\ Len(table.block_meta) = 3
    /\ BytesCmp(table.block_meta[1].last_key, sst_op.key) < 0
    /\ BytesCmp(sst_op.key, table.block_meta[2].first_key) < 0
    /\ SsTableIterator_key(sst_iter[1]) = table.block_meta[2].first_key

\* C7: if k is greater than last_key, the iterator is invalid after
\* seek_to_key(k) or create_and_seek_to_key(table, k).
C7_SstSeekPastEnd ==
    ( /\ sst_pc = "ready"
      /\ sst_op.op = "key"
      /\ sst_op.nexts = 0
      /\ BytesCmp(sst_op.key, table.last_key) > 0 ) =>
        ~SsTableIterator_is_valid(sst_iter[1])

\* C8: create_and_seek_to_first, or seek_to_first from any position, then
\* next() until the iterator is invalid reads every record of every block
\* once, in block order and in-block order.
C8_SstScan ==
    (sst_pc = "ready" /\ sst_op.op = "first") =>
        /\ IsPrefix(sst_out, SstStored)
        /\ SsTableIterator_is_valid(sst_iter[1]) =>
              /\ Len(sst_out) = sst_op.nexts + 1
              /\ sst_out[Len(sst_out)].key = SsTableIterator_key(sst_iter[1])
        /\ ~SsTableIterator_is_valid(sst_iter[1]) => sst_out = SstStored

\* a table of three blocks read to its end after a seek_to_first issued from
\* the third block
C8_Witness ==
    /\ sst_pc = "ready"
    /\ sst_op.op = "first"
    /\ sst_op.from_idx = 2
    /\ Len(sst_blocks) = 3
    /\ Len(SstStored) >= 4
    /\ ~SsTableIterator_is_valid(sst_iter[1])
    /\ sst_out = SstStored

\* C24: every block index an SsTableIterator passes to read_block_cached is
\* smaller than the table's number of blocks: on creation and seek_to_first,
\* tables without blocks included, on seek_to_key from every position, an
\* exhausted iterator's included, and on next.
C24_SstReadsInRange ==
    \A i \in 1..Len(sst_reads) : sst_reads[i] < Len(table.block_meta)

\* C25: an SsTableIterator positioned by seek_to_first that has run past the
\* last entry of the last block is invalid, and a BlockIterator advanced
\* past its last entry, as the one it holds then, has an empty key; from
\* there every next() returns, loads no block and leaves both invalid.
C25_SstPastEndAbsorbing ==
    /\ []( ( /\ sst_pc = "ready"
             /\ sst_op.op = "first"
             /\ sst_op.nexts >= Len(SstStored) ) =>
               /\ ~SsTableIterator_is_valid(sst_iter[1])
               /\ BlockIterator_key(sst_iter[1].blk_iter) = <<>>
               /\ ~BlockIterator_is_valid(sst_iter[1].blk_iter) )
    /\ [][ ( /\ sst_pc = "ready"
             /\ sst_op.op = "first"
             /\ ~SsTableIterator_is_valid(sst_iter[1])
             /\ sst_op' = [sst_op EXCEPT !.nexts = sst_op.nexts + 1] ) =>
               /\ sst_pc' = "ready"
               /\ sst_reads' = <<>>
               /\ ~SsTableIterator_is_valid(sst_iter'[1])
               /\ BlockIterator_key(sst_iter'[1].blk_iter) = <<>>
               /\ ~BlockIterator_is_valid(sst_iter'[1].blk_iter) ]_vars

\* a table of two blocks read to its end from seek_to_first, and next()
\* called once more
C25_Witness ==
    /\ sst_pc = "ready"
    /\ sst_op.op = "first"
    /\ Len(sst_blocks) = 2
    /\ sst_op.nexts = Len(SstStored) + 1
    /\ sst_out = SstStored
    /\ sst_iter[1].blk_idx = 3
    /\ ~SsTableIterator_is_valid(sst_iter[1])

----------------------------------------------------------------------------
(* MergeSpec: a MergeIterator is created over child iterators and read     *)

\* the most child iterators passed to MergeIterator::create
MaxIters == 3

\* the most entries the child iterators hold together
MaxEntries == 3

\* the most next() calls returning Ok that a run counts; a MergeIterator over
\* MaxEntries entries takes fewer
MaxCalls == 4

\* "a", "b", "c"
MergeKeys == { <<97>>, <<98>>, <<99>> }

\* the value the child at position p of the vector holds under every key it
\* has no tombstone for: "1", "2", ...
MergeValueOf(p) ==
    << 48 + p >>

\* a child at position p of n entries: strictly ascending keys, each with the
\* empty value (a tombstone) or with the value of position p
MergeChildren(p, n) ==
    { [ entries |-> e, pos |-> 1 ] :
        e \in { r \in AscendingRecords(MergeKeys, { <<>>, MergeValueOf(p) }, n) :
                  Len(r) = n } }

\* the vectors of n children that hold at most `budget` entries together
RECURSIVE MergeVectors(_, _)
MergeVectors(n, budget) ==
    IF n = 0 THEN { <<>> }
    ELSE UNION { { Append(v, c) : v \in MergeVectors(n - 1, budget - k),
                                  c \in MergeChildren(n, k) } :
                 k \in 0..budget }

MergeInputs ==
    UNION { MergeVectors(n, MaxEntries) : n \in 0..MaxIters }

\* the MergeIterator of the state
Merge ==
    [ iters |-> iters, current |-> current ]

\* what a caller looping `while iter.is_valid()` reads from a MergeIterator
MergeObserve(m, out) ==
    IF MergeIterator_is_valid(m)
    THEN Append(out, [ key   |-> MergeIterator_key(m),
                       value |-> MergeIterator_value(m) ])
    ELSE out

MergeInit ==
    /\ inputs \in MergeInputs
    /\ iters = {}
    /\ current = <<>>
    /\ merge_pc = "new"
    /\ merge_ret = "none"
    /\ merge_out = <<>>
    /\ merge_failed = {}
    /\ merge_calls = 0
    /\ merge_pops = 0

\* MergeIterator::create(inputs)
MergeCreate ==
    /\ merge_pc = "new"
    /\ LET m == MergeIterator_create(inputs)
       IN  /\ iters' = m.iters
           /\ current' = m.current
           /\ merge_out' = MergeObserve(m, <<>>)
    /\ merge_pc' = "created"
    /\ UNCHANGED <<inputs, merge_ret, merge_failed, merge_calls, merge_pops>>
    /\ UNCHANGED <<block_vars, sst_vars, mem_vars, file_vars, cache_vars>>

\* merge.next(), during which next() of the children of `failing` fails
MergeNext(failing) ==
    /\ merge_pc = "created"
    /\ merge_calls < MaxCalls
    /\ LET r == MergeIterator_next(Merge, failing)
       IN  IF r.ret = "panic"
           THEN /\ merge_pc' = "panic"
                /\ UNCHANGED <<iters, current, merge_ret, merge_out,
                               merge_failed, merge_calls, merge_pops>>
           ELSE /\ iters' = r.m.iters
                /\ current' = r.m.current
                /\ merge_ret' = r.ret
                /\ merge_out' = IF r.ret = "ok" THEN MergeObserve(r.m, merge_out)
                                ELSE merge_out
                /\ merge_failed' = IF r.ret = "err" THEN failing ELSE {}
                /\ merge_calls' = IF r.ret = "ok" THEN merge_calls + 1
                                  ELSE merge_calls
                /\ merge_pops' = MergeIterator_next_pops(Merge, failing)
                /\ UNCHANGED merge_pc
    /\ UNCHANGED inputs
    /\ UNCHANGED <<block_vars, sst_vars, mem_vars, file_vars, cache_vars>>

\* the sets `failing` of a call: no child fails, or one does
MergeFailures ==
    { {} } \cup { {i} : i \in 0..(MaxIters - 1) }

\* the keys the child at position p of the vector holds
MergeKeysOf(p) ==
    { inputs[p].entries[j].key : j \in 1..Len(inputs[p].entries) }

\* the keys held by some child
MergeAllKeys ==
    UNION { MergeKeysOf(p) : p \in 1..Len(inputs) }

\* the smallest position of the vector whose child holds `key`
MergeFirstHolder(key) ==
    CHOOSE p \in 1..Len(inputs) :
        /\ key \in MergeKeysOf(p)
        /\ \A q \in 1..(p - 1) : key \notin MergeKeysOf(q)

\* the value the child at position p holds under `key`
MergeValueIn(p, key) ==
    LET j == CHOOSE i \in 1..Len(inputs[p].entries) : inputs[p].entries[i].key = key
    IN  inputs[p].entries[j].value

\* the keys whose occurrence at the smallest position is no tombstone
MergeLiveKeys ==
    { k \in MergeAllKeys : MergeValueIn(MergeFirstHolder(k), k) # <<>> }

\* the keys read so far
MergeOutKeys ==
    { merge_out[i].key : i \in 1..Len(merge_out) }

\* C1: the keys read from a MergeIterator, right after create and after each
\* next() while it is valid, are strictly ascending: no key twice, none
\* smaller than an earlier one.
C1_MergeAscending ==
    \A i \in 1..(Len(merge_out) - 1) :
        BytesCmp(merge_out[i].key, merge_out[i + 1].key) < 0

\* two keys read, the first of them held by two children
C1_Witness ==
    /\ Len(merge_out) >= 2
    /\ Len(inputs) >= 2
    /\ merge_out[1].key \in MergeKeysOf(1) \cap MergeKeysOf(2)

\* C2: the value read for a key held by several children is the value of the
\* child at the smallest position of the vector passed to create, also when
\* children before it were filtered out as invalid.
C2_MergePriority ==
    \A i \in 1..Len(merge_out) :
        merge_out[i].value =
            MergeValueIn(MergeFirstHolder(merge_out[i].key), merge_out[i].key)

\* the first child is invalid and filtered out, the second and the third
\* hold the key read, and the value read is the second's
C2_Witness ==
    /\ Len(inputs) = 3
    /\ ~Child_is_valid(inputs[1])
    /\ merge_out # <<>>
    /\ LET last == merge_out[Len(merge_out)]
       IN  /\ last.key \in MergeKeysOf(2) \cap MergeKeysOf(3)
           /\ last.value = MergeValueOf(2)
           /\ MergeValueIn(3, last.key) = MergeValueOf(3)

\* C3: whenever the MergeIterator is valid its value is not empty, the state
\* right after create included.
C3_MergeNoTombstone ==
    (merge_pc = "created" /\ MergeIterator_is_valid(Merge)) =>
        MergeIterator_value(Merge) # <<>>

\* C4: every pair read is an entry of some child, and once the iterator has
\* run to its end without an error every key whose occurrence at the
\* smallest position has a value was read exactly once; while it runs, the
\* live keys below the current key have been read already.
C4_MergeUnion ==
    /\ \A i \in 1..Len(merge_out) :
          \E p \in 1..Len(inputs) : \E j \in 1..Len(inputs[p].entries) :
              inputs[p].entries[j] = merge_out[i]
    /\ \A k \in MergeLiveKeys :
          Cardinality({ i \in 1..Len(merge_out) : merge_out[i].key = k }) <= 1
    /\ (merge_pc # "new" /\ merge_ret # "err") =>
          IF MergeIterator_is_valid(Merge)
          THEN \A k \in MergeLiveKeys :
                  BytesCmp(k, MergeIterator_key(Merge)) <= 0 => k \in MergeOutKeys
          ELSE MergeLiveKeys \subseteq MergeOutKeys

\* a run to the end over two children that read two live keys and skipped a
\* tombstone between them
C4_Witness ==
    /\ merge_pc = "created"
    /\ merge_ret = "ok"
    /\ ~MergeIterator_is_valid(Merge)
    /\ Len(inputs) >= 2
    /\ Len(merge_out) = 2
    /\ MergeOutKeys = MergeLiveKeys
    /\ \E k \in MergeAllKeys \ MergeLiveKeys :
          /\ BytesCmp(merge_out[1].key, k) < 0
          /\ BytesCmp(k, merge_out[2].key) < 0

\* C15: next() on a MergeIterator that is invalid (created from no inputs
\* or only invalid ones, or exhausted) is a no-op returning Ok: no call of
\* next() panics.
C15_MergeNextOnInvalid ==
    merge_pc # "panic"

\* the smallest key held by a child: the key create leaves the iterator on
MergeFirstKey ==
    CHOOSE k \in MergeAllKeys : \A j \in MergeAllKeys : BytesCmp(k, j) <= 0

\* C19: past the first key of the merge, the occurrence of a key in the
\* child at the smallest position decides: the key is read with that
\* child's value, also when a later child holds a tombstone for it, and is
\* skipped with all its occurrences when that child holds a tombstone.
C19_MergeTombstonePriority ==
    MergeAllKeys # {} =>
        /\ \A i \in 1..Len(merge_out) :
              merge_out[i].key # MergeFirstKey =>
                  LET top == MergeValueIn(MergeFirstHolder(merge_out[i].key),
                                          merge_out[i].key)
                  IN  top # <<>> /\ merge_out[i].value = top
        /\ (merge_pc # "new" /\ merge_ret # "err" /\ ~MergeIterator_is_valid(Merge)) =>
              \A k \in MergeAllKeys \ {MergeFirstKey} :
                  MergeValueIn(MergeFirstHolder(k), k) # <<>> => k \in MergeOutKeys

\* a run to the end that skipped a key past the first one: the child at the
\* smallest position holds a tombstone for it and a later child a value
C19_Witness ==
    /\ merge_pc = "created"
    /\ merge_ret = "ok"
    /\ ~MergeIterator_is_valid(Merge)
    /\ merge_out # <<>>
    /\ \E k \in MergeAllKeys \ {MergeFirstKey} :
          /\ k \notin MergeOutKeys
          /\ MergeValueIn(MergeFirstHolder(k), k) = <<>>
          /\ \E q \in (MergeFirstHolder(k) + 1)..Len(inputs) :
                k \in MergeKeysOf(q) /\ MergeValueIn(q, k) # <<>>

\* C21: when next() of a child fails while MergeIterator::next consumes the
\* current key, MergeIterator::next returns the error, and from then on
\* current is None, is_valid() is false, the failed child is not in the
\* heap, and no call reads a further key.
C21_MergeChildError ==
    /\ [](merge_failed # {} =>
            /\ merge_ret = "err"
            /\ current = <<>>
            /\ ~MergeIterator_is_valid(Merge)
            /\ \A w \in iters : w.idx \notin merge_failed)
    /\ [][merge_failed # {} =>
            /\ merge_out' = merge_out
            /\ iters' = iters
            /\ current' = current]_vars

\* the second next() fails in a child while another child waits in the
\* heap, and a later next() was tried
C21_Witness ==
    /\ merge_failed # {}
    /\ merge_ret = "err"
    /\ merge_pc = "panic"
    /\ Len(merge_out) = 2
    /\ Cardinality(iters) = 1

\* C22: after create and any number of next() calls that returned Ok, a
\* valid MergeIterator has in current the least (key, index) pair: every
\* child in the heap is valid and has a greater key than current, or the
\* same key and a greater index.
C22_MergeCurrentIsMin ==
    (merge_pc = "created" /\ merge_ret # "err" /\ MergeIterator_is_valid(Merge)) =>
        \A w \in iters :
            /\ Child_is_valid(w.iter)
            /\ LET by_key == BytesCmp(Child_key(current[1].iter), Child_key(w.iter))
               IN  by_key < 0 \/ (by_key = 0 /\ current[1].idx < w.idx)

\* after a next() the heap holds a child on the key of current, behind it by
\* its index alone
C22_Witness ==
    /\ merge_pc = "created"
    /\ merge_calls >= 1
    /\ merge_ret = "ok"
    /\ MergeIterator_is_valid(Merge)
    /\ \E w \in iters :
          /\ Child_key(w.iter) = Child_key(current[1].iter)
          /\ w.idx > current[1].idx

\* the entries the first n children of the vector hold together
RECURSIVE MergeEntriesIn(_)
MergeEntriesIn(n) ==
    IF n = 0 THEN 0 ELSE Len(inputs[n].entries) + MergeEntriesIn(n - 1)

\* the entries all children hold together
MergeEntries ==
    MergeEntriesIn(Len(inputs))

\* C23: over finite children every next() ends, its loop popping the heap
\* at most twice per entry and once more; and a caller that calls next()
\* while is_valid() finds the iterator invalid after at most as many calls
\* as the children hold entries together: while the iterator is valid,
\* fewer calls than that have returned.
C23_MergeTerminates ==
    /\ merge_pops <= 2 * MergeEntries + 1
    /\ merge_calls <= MergeEntries
    /\ (merge_pc = "created" /\ MergeIterator_is_valid(Merge)) =>
          merge_calls < MergeEntries

\* one next() that runs to the end over two tombstone keys in a row, its
\* loop popping the heap twice per entry
C23_Witness ==
    /\ merge_pc = "created"
    /\ merge_ret = "ok"
    /\ ~MergeIterator_is_valid(Merge)
    /\ MergeEntries = MaxEntries
    /\ merge_calls = 1
    /\ merge_pops = 2 * MergeEntries
    /\ \A p \in 1..Len(inputs) : \A j \in 2..Len(inputs[p].entries) :
          inputs[p].entries[j].value = <<>>

----------------------------------------------------------------------------
(* MergeBytesSpec: a MergeIterator over children that hold arbitrary bytes *)
(* and whose own next() never fails                                        *)

\* the most child iterators passed to create in MergeBytesSpec
MaxByteIters == 2

\* the most entries a child holds in MergeBytesSpec
MaxByteEntries == 2

\* "a", U+00E9 in UTF-8, and 0xFF, which no UTF-8 string holds
MergeByteKeys == { <<97>>, <<195, 169>>, <<255>> }

\* "", "1", and 0x80, a continuation byte on its own
MergeByteValues == { <<>>, <<49>>, <<128>> }

MergeByteChildren ==
    { [ entries |-> e, pos |-> 1 ] :
        e \in AscendingRecords(MergeByteKeys, MergeByteValues, MaxByteEntries) }

RECURSIVE MergeByteVectors(_)
MergeByteVectors(n) ==
    IF n = 0 THEN { <<>> }
    ELSE { Append(v, c) : v \in MergeByteVectors(n - 1), c \in MergeByteChildren }

MergeBytesInit ==
    /\ inputs \in UNION { MergeByteVectors(n) : n \in 0..MaxByteIters }
    /\ iters = {}
    /\ current = <<>>
    /\ merge_pc = "new"
    /\ merge_ret = "none"
    /\ merge_out = <<>>
    /\ merge_failed = {}
    /\ merge_calls = 0
    /\ merge_pops = 0

\* C20: over children whose own next() never fails, whatever bytes their
\* keys and values are, every next() on a valid MergeIterator returns Ok.
C20_MergeNextInfallible ==
    merge_ret # "err"

----------------------------------------------------------------------------
(* MemSpec: writer threads put into a MemTable while a reader gets, scans  *)
(* and flushes                                                             *)

\* the number of puts made in a run, over all writers
MaxPuts == 3

\* "a", "b": keys are not empty (a Key has length 1..=65535)
MemKeys == { <<97>>, <<98>> }

\* the value writer t puts: "1", "22", "333", ...
MemValueOf(t) == [ i \in 1..t |-> 48 + t ]

\* the bounds a scan is given
MemBounds ==
    {Unbounded} \cup { Included(k) : k \in MemKeys } \cup { Excluded(k) : k \in MemKeys }

\* the writer threads
MemWriters == { 1, 2 }

MemIdlePc == [ pc |-> "idle", key |-> <<>>, value |-> <<>> ]

NoGet == [ op |-> "none", key |-> <<>>, res |-> <<>>,
           put_begun |-> FALSE, put_returned |-> FALSE, linked |-> <<>> ]

NoFlush == [ ret |-> "none", added |-> <<>> ]

NoScan == [ lower |-> Unbounded, upper |-> Unbounded, quiet |-> FALSE,
            start |-> <<>> ]

\* the writers inside put
MemInFlight == { t \in MemWriters : mem_pc[t].pc # "idle" }

\* what a caller looping `while it.is_valid()` reads from a MemTableIterator
MemObserve(it, out) ==
    IF MemTableIterator_is_valid(it)
    THEN Append(out, [ key   |-> MemTableIterator_key(it),
                       value |-> MemTableIterator_value(it) ])
    ELSE out

\* MemTable::create
MemInit ==
    /\ mem_map = <<>>
    /\ mem_size = 0
    /\ mem_pc = [ t \in MemWriters |-> MemIdlePc ]
    /\ mem_log = [ k \in MemKeys |-> <<>> ]
    /\ mem_returned = [ count |-> 0, bytes |-> 0, keys |-> {} ]
    /\ mem_get = NoGet
    /\ mem_iter = <<>>
    /\ mem_scan = NoScan
    /\ mem_out = <<>>
    /\ mem_flush = NoFlush

\* what one round of SkipMap::insert by writer t leaves
MemInsertRound(t, key, value) ==
    LET round == SkipMap_insert_round(mem_map, key, value)
    IN  /\ mem_map' = round.map
        /\ mem_log' = IF round.linked
                      THEN [ mem_log EXCEPT ![key] = << value >> ]
                      ELSE mem_log
        /\ mem_pc' = [ mem_pc EXCEPT ![t] =
                         [ pc    |-> IF round.linked THEN "add" ELSE "insert",
                           key   |-> key,
                           value |-> value ] ]

\* MemTable::put, entered by writer t: the first round of self.map.insert
MemPutBegin(t, key) ==
    /\ mem_pc[t].pc = "idle"
    /\ mem_returned.count + Cardinality(MemInFlight) < MaxPuts
    /\ MemInsertRound(t, key, MemValueOf(t))
    /\ mem_scan' = [ mem_scan EXCEPT !.quiet = FALSE ]
    /\ UNCHANGED <<mem_size, mem_returned, mem_get, mem_iter, mem_out, mem_flush>>
    /\ UNCHANGED <<block_vars, sst_vars, merge_vars, file_vars, cache_vars>>

\* MemTable::put, writer t still inside self.map.insert: one more round
MemPutInsert(t) ==
    /\ mem_pc[t].pc = "insert"
    /\ MemInsertRound(t, mem_pc[t].key, mem_pc[t].value)
    /\ UNCHANGED <<mem_size, mem_returned, mem_get, mem_iter, mem_scan, mem_out,
                   mem_flush>>
    /\ UNCHANGED <<block_vars, sst_vars, merge_vars, file_vars, cache_vars>>

\* MemTable::put, writer t after the insert: the fetch_add and the return
MemPutAdd(t) ==
    /\ mem_pc[t].pc = "add"
    /\ mem_size' = mem_size + MemTable_put_size(mem_pc[t].key, mem_pc[t].value)
    /\ mem_returned' =
          [ count |-> mem_returned.count + 1,
            bytes |-> mem_returned.bytes + Len(mem_pc[t].key) + Len(mem_pc[t].value),
            keys  |-> mem_returned.keys \cup { mem_pc[t].key } ]
    /\ mem_pc' = [ mem_pc EXCEPT ![t] = MemIdlePc ]
    /\ UNCHANGED <<mem_map, mem_log, mem_get, mem_iter, mem_scan, mem_out, mem_flush>>
    /\ UNCHANGED <<block_vars, sst_vars, merge_vars, file_vars, cache_vars>>

\* MemTable::get by the reader, which drops the iterator it held
MemGet(key) ==
    /\ mem_flush.ret = "none"
    /\ mem_iter' = <<>>
    /\ mem_scan' = NoScan
    /\ mem_out' = <<>>
    /\ mem_get' =
          [ op  |-> "get",
            key |-> key,
            res |-> MemTable_get(mem_map, key),
            put_begun |->
                \/ key \in mem_returned.keys
                \/ \E t \in MemInFlight : mem_pc[t].key = key,
            put_returned |-> key \in mem_returned.keys,
            linked |-> mem_log[key] ]
    /\ UNCHANGED <<mem_map, mem_size, mem_pc, mem_log, mem_returned, mem_flush>>
    /\ UNCHANGED <<block_vars, sst_vars, merge_vars, file_vars, cache_vars>>

\* MemTable::scan by the reader
MemScan(lower, upper) ==
    LET it == MemTable_scan(mem_map, lower, upper)
    IN  /\ mem_flush.ret = "none"
        /\ mem_get' = NoGet
        /\ mem_iter' = << it >>
        /\ mem_scan' = [ lower |-> lower, upper |-> upper,
                         quiet |-> MemInFlight = {}, start |-> mem_map ]
        /\ mem_out' = MemObserve(it, <<>>)
        /\ UNCHANGED <<mem_map, mem_size, mem_pc, mem_log, mem_returned, mem_flush>>
        /\ UNCHANGED <<block_vars, sst_vars, merge_vars, file_vars, cache_vars>>

\* MemTableIterator::next by the reader, called while the iterator is valid
MemNext ==
    /\ mem_flush.ret = "none"
    /\ mem_iter # <<>>
    /\ MemTableIterator_is_valid(mem_iter[1])
    /\ LET it == MemTableIterator_next(mem_map, mem_iter[1])
       IN  /\ mem_iter' = << it >>
           /\ mem_out' = MemObserve(it, mem_out)
    /\ UNCHANGED <<mem_map, mem_size, mem_pc, mem_log, mem_returned, mem_get,
                   mem_scan, mem_flush>>
    /\ UNCHANGED <<block_vars, sst_vars, merge_vars, file_vars, cache_vars>>

\* MemTable::flush by the reader; the panic ends the reader thread
MemFlush ==
    /\ mem_flush.ret = "none"
    /\ mem_flush' = MemTable_flush(mem_map)
    /\ UNCHANGED <<mem_map, mem_size, mem_pc, mem_log, mem_returned, mem_get,
                   mem_iter, mem_scan, mem_out>>
    /\ UNCHANGED <<block_vars, sst_vars, merge_vars, file_vars, cache_vars>>

\* the keys of a set in ascending order
RECURSIVE MemAscending(_)
MemAscending(keys) ==
    IF keys = {} THEN <<>>
    ELSE LET k == SkipMap_min(keys)
         IN  << k >> \o MemAscending(keys \ {k})

\* the keys a scan is to visit among `keys`
MemInRange(keys) ==
    { k \in keys :
        /\ \/ mem_scan.lower.kind = "Unbounded"
           \/ mem_scan.lower.kind = "Included" /\ BytesCmp(mem_scan.lower.key, k) <= 0
           \/ mem_scan.lower.kind = "Excluded" /\ BytesCmp(mem_scan.lower.key, k) < 0
        /\ \/ mem_scan.upper.kind = "Unbounded"
           \/ mem_scan.upper.kind = "Included" /\ BytesCmp(k, mem_scan.upper.key) <= 0
           \/ mem_scan.upper.kind = "Excluded" /\ BytesCmp(k, mem_scan.upper.key) < 0 }

\* the entries a scan with no writer beside it is to read: the keys put so
\* far that satisfy both bounds, ascending, each with the value put last
MemExpected ==
    LET ks == MemAscending(MemInRange({ k \in MemKeys : mem_log[k] # <<>> }))
    IN  [ i \in 1..Len(ks) |-> [ key |-> ks[i], value |-> mem_log[ks[i]][1] ] ]

MemOutKeys ==
    { mem_out[i].key : i \in 1..Len(mem_out) }

\* C11: with no writer beside it, scan(lower, upper) and next() until the
\* iterator is invalid read exactly the entries whose key satisfies both
\* bounds, ascending, each with the value put last; the iterator is valid
\* right after scan iff some entry is in range.
C11_MemScan ==
    (mem_iter # <<>> /\ mem_scan.quiet) =>
        /\ IsPrefix(mem_out, MemExpected)
        /\ MemTableIterator_is_valid(mem_iter[1]) =>
              /\ mem_out # <<>>
              /\ mem_out[Len(mem_out)].key = MemTableIterator_key(mem_iter[1])
        /\ ~MemTableIterator_is_valid(mem_iter[1]) => mem_out = MemExpected

\* three puts, one of them an overwrite, then a scan with an excluded upper
\* bound that leaves a stored key out, run to its end
C11_Witness ==
    /\ mem_iter # <<>>
    /\ mem_scan.quiet
    /\ mem_returned.count = 3
    /\ DOMAIN mem_map = MemKeys
    /\ mem_scan.lower = Included(<<97>>)
    /\ mem_scan.upper = Excluded(<<98>>)
    /\ ~MemTableIterator_is_valid(mem_iter[1])
    /\ mem_out = << [ key |-> <<97>>, value |-> MemValueOf(2) ] >>

\* C12: get(k) returns absent if k was never put and otherwise the value
\* put last: absent only when no put to k has returned, a value only when
\* it is the one linked last under k, and once all puts have returned the
\* value of the put whose insert happened last.
C12_MemGet ==
    /\ mem_get.op = "get" =>
          /\ ~mem_get.put_begun => mem_get.res = <<>>
          /\ mem_get.put_returned => mem_get.res # <<>>
          /\ mem_get.res # <<>> => mem_get.res = mem_get.linked
    /\ MemInFlight = {} =>
          \A k \in MemKeys : MemTable_get(mem_map, k) = mem_log[k]

\* C13: a scan beside concurrent puts reads strictly ascending keys, each at
\* most once, and skips no key inside the bounds that was in the map when
\* the scan started.
C13_MemScanConcurrent ==
    mem_iter # <<>> =>
        /\ \A i \in 1..(Len(mem_out) - 1) :
              BytesCmp(mem_out[i].key, mem_out[i + 1].key) < 0
        /\ \A k \in MemInRange(DOMAIN mem_scan.start) :
              ( \/ ~MemTableIterator_is_valid(mem_iter[1])
                \/ BytesCmp(k, MemTableIterator_key(mem_iter[1])) <= 0 ) =>
                  k \in MemOutKeys

\* C14: approximate_size never decreases, each put adds len(k) + len(v) to
\* it, and it is the sum of len(k) + len(v) over the puts that have
\* returned, overwrites counted again.
C14_MemApproximateSize ==
    /\ [](mem_size = mem_returned.bytes)
    /\ [][mem_size' >= mem_size]_vars
    /\ [][\A t \in MemWriters :
            (mem_pc[t].pc = "add" /\ mem_pc'[t].pc = "idle") =>
                mem_size' = mem_size + Len(mem_pc[t].key) + Len(mem_pc[t].value)]_vars

\* all puts have returned, one of them an overwrite: the counter is larger
\* than the bytes the map holds
C14_Witness ==
    /\ MemInFlight = {}
    /\ mem_returned.count = 3
    /\ DOMAIN mem_map = { <<97>> }
    /\ mem_size = 3 + Len(MemValueOf(1)) + 2 * Len(MemValueOf(2))

\* C18: flush(builder) returns Ok having added every entry of the MemTable
\* to the builder once, in ascending key order, and leaves the map as it was.
C18_MemFlush ==
    mem_flush.ret # "none" =>
        /\ mem_flush.ret = "ok"
        /\ LET ks == MemAscending(DOMAIN mem_map)
           IN  MemInFlight = {} =>
                   mem_flush.added =
                       [ i \in 1..Len(ks) |-> [ key |-> ks[i], value |-> mem_map[ks[i]] ] ]

----------------------------------------------------------------------------
(* FileSpec: SsTable::open, find_block_idx and read_block over an SST file *)
(* as built, or with one count field of it damaged on the medium           *)

\* the file with the bytes at offset `at` replaced by `patch`
FileDamaged(bytes, at, patch) ==
    Slice(bytes, 0, at) \o patch \o Slice(bytes, at + Len(patch), Len(bytes))

\* where the meta section of a built file starts
FileMetaOffset(bytes) ==
    GetU32(bytes, Len(bytes) - SIZEOF_U32)

\* where the first block of a built file of n blocks ends
FileFirstBlockEnd(bytes, n) ==
    IF n >= 2
    THEN BlockMeta_decode_block_meta(
             Slice(bytes, FileMetaOffset(bytes), Len(bytes) - SIZEOF_U32))[2].offset
    ELSE FileMetaOffset(bytes)

\* the faults: the count at the head of the meta section is one too large;
\* the entry count of the first block is one too small, or is 0xFFFF
FileFaults == { "none", "num_metas", "block_count_low", "block_count_max" }

\* the built file of `blocks` under a fault
FileUnder(fault, blocks) ==
    LET bytes == SsTableBuilder_build(blocks)
        n     == Len(blocks)
        count == FileFirstBlockEnd(bytes, n) - SIZEOF_U16
    IN  CASE fault = "none" -> bytes
          [] fault = "num_metas" ->
                FileDamaged(bytes, FileMetaOffset(bytes), PutU32(n + 1))
          [] fault = "block_count_low" ->
                FileDamaged(bytes, count, PutU16(Len(blocks[1]) - 1))
          [] fault = "block_count_max" ->
                FileDamaged(bytes, count, PutU16(65535))

FileInit ==
    /\ \E blocks \in SstInputs : \E fault \in FileFaults :
          /\ fault \in { "block_count_low", "block_count_max" } => blocks # <<>>
          /\ file_bytes = FileUnder(fault, blocks)
          /\ file_fault = fault
    /\ file_table = <<>>
    /\ file_find = <<>>
    /\ file_block = <<>>

\* SsTable::open(0, None, file)
FileOpen ==
    /\ file_table = <<>>
    /\ file_table' = << [ ret |-> "ok", table |-> SsTable_open(0, file_bytes) ] >>
    /\ UNCHANGED <<file_bytes, file_fault, file_find, file_block>>
    /\ UNCHANGED <<block_vars, sst_vars, merge_vars, mem_vars, cache_vars>>

\* table.find_block_idx(key)
FileFindBlockIdx(key) ==
    /\ file_table # <<>>
    /\ file_find' = << [ key |-> key,
                         idx |-> SsTable_find_block_idx(file_table[1].table, key) ] >>
    /\ UNCHANGED <<file_bytes, file_fault, file_table, file_block>>
    /\ UNCHANGED <<block_vars, sst_vars, merge_vars, mem_vars, cache_vars>>

\* table.read_block(block_idx), for a block of the table
FileReadBlock(block_idx) ==
    /\ file_table # <<>>
    /\ LET t   == file_table[1].table
           raw == FileObject_read(t.file, t.block_meta[block_idx + 1].offset,
                      ( IF block_idx + 1 < Len(t.block_meta)
                        THEN t.block_meta[block_idx + 2].offset
                        ELSE t.block_meta_offset ) - t.block_meta[block_idx + 1].offset)
       IN  /\ ~SsTable_read_block_panics(t, block_idx)
           /\ file_block' =
                 << IF Block_decode_panics(raw)
                    THEN [ block_idx |-> block_idx, ret |-> "panic", block |-> <<>> ]
                    ELSE [ block_idx |-> block_idx, ret |-> "ok",
                           block |-> SsTable_read_block(t, block_idx) ] >>
    /\ UNCHANGED <<file_bytes, file_fault, file_table, file_find>>
    /\ UNCHANGED <<block_vars, sst_vars, merge_vars, mem_vars, cache_vars>>

\* C16: find_block_idx(k) returns 0 when k < first_key or k > last_key, and
\* otherwise the smallest index i with block_meta[i].last_key >= k.
C16_FindBlockIdx ==
    file_find # <<>> =>
        LET t   == file_table[1].table
            key == file_find[1].key
            idx == file_find[1].idx
        IN  IF BytesCmp(key, t.first_key) < 0 \/ BytesCmp(key, t.last_key) > 0
            THEN idx = 0
            ELSE /\ idx < Len(t.block_meta)
                 /\ BytesCmp(t.block_meta[idx + 1].last_key, key) >= 0
                 /\ \A i \in 0..(idx - 1) :
                       BytesCmp(t.block_meta[i + 1].last_key, key) < 0

\* a key in the gap between the second and the third block: index 2
C16_Witness ==
    /\ file_find # <<>>
    /\ file_fault = "none"
    /\ Len(file_table[1].table.block_meta) = 3
    /\ BytesCmp(file_table[1].table.block_meta[2].last_key, file_find[1].key) < 0
    /\ BytesCmp(file_find[1].key, file_table[1].table.block_meta[3].first_key) < 0
    /\ file_find[1].idx = 2

\* C17: SsTable::open and Block::decode report a corruption error when the
\* encoded lengths are inconsistent: open when the count at the head of the
\* meta section disagrees with the metas encoded, the decode of a block
\* when its entry count is wrong.
C17_CorruptionReported ==
    /\ (file_fault = "num_metas" /\ file_table # <<>>) =>
          file_table[1].ret = "corruption"
    /\ ( /\ file_fault \in { "block_count_low", "block_count_max" }
         /\ file_block # <<>>
         /\ file_block[1].block_idx = 0 ) =>
          file_block[1].ret = "corruption"

----------------------------------------------------------------------------
(* CacheSpec: tables with distinct ids, opened with the shared BlockCache  *)
(* or with none, are read block by block                                   *)

\* the most blocks a table of CacheSpec holds
MaxCacheBlocks == 2

\* the ids of the tables
CacheTableIds == { 0, 1 }

\* "b", "c", "d"
CacheKeys == { <<98>>, <<99>>, <<100>> }

\* the tables of CacheSpec: one record a block
CacheInputs ==
    { blocks \in SstInputs :
        /\ Len(blocks) \in 1..MaxCacheBlocks
        /\ \A i \in 1..Len(blocks) :
              Len(blocks[i]) = 1 /\ blocks[i][1].key \in CacheKeys }

CacheInit ==
    /\ cache_blocks \in [ CacheTableIds -> CacheInputs ]
    /\ \E with_cache \in [ CacheTableIds -> BOOLEAN ] :
          cache_tables =
              [ id \in CacheTableIds |->
                  [ table       |-> SsTable_open(id, SsTableBuilder_build(cache_blocks[id])),
                    block_cache |-> with_cache[id] ] ]
    /\ cache_map = BlockCache_new
    /\ cache_last = <<>>

\* tables[id].read_block_cached(block_idx), for a block of the table
CacheReadBlockCached(id, block_idx) ==
    /\ ~SsTable_read_block_panics(cache_tables[id].table, block_idx)
    /\ LET t == cache_tables[id].table
       IN  IF cache_tables[id].block_cache
           THEN LET r == SsTable_read_block_cached_Some(t, cache_map, block_idx)
                IN  /\ cache_map' = r.cache
                    /\ cache_last' = << [ id |-> id, block_idx |-> block_idx,
                                          block |-> r.block,
                                          filled |-> r.cache # cache_map ] >>
           ELSE /\ cache_last' = << [ id |-> id, block_idx |-> block_idx,
                                      block |-> SsTable_read_block_cached(t, block_idx),
                                      filled |-> FALSE ] >>
                /\ UNCHANGED cache_map
    /\ UNCHANGED <<cache_blocks, cache_tables>>
    /\ UNCHANGED <<block_vars, sst_vars, merge_vars, mem_vars, file_vars>>

\* the cache drops the entry under `key`
CacheEvict(key) ==
    /\ key \in DOMAIN cache_map
    /\ cache_map' = BlockCache_invalidate(cache_map, key)
    /\ UNCHANGED <<cache_blocks, cache_tables, cache_last>>
    /\ UNCHANGED <<block_vars, sst_vars, merge_vars, mem_vars, file_vars>>

\* C26: on tables with distinct ids, with the shared cache or with none,
\* read_block_cached(i) on table t returns the block t.read_block(i) returns;
\* the entry the cache holds under (sst_id, block_idx) is the block
\* block_idx of the table with that id, and a table without the cache
\* leaves none.
C26_CacheReadsOwnBlock ==
    /\ cache_last # <<>> =>
          cache_last[1].block =
              SsTable_read_block(cache_tables[cache_last[1].id].table,
                                 cache_last[1].block_idx)
    /\ \A key \in DOMAIN cache_map :
          /\ key[1] \in CacheTableIds
          /\ cache_tables[key[1]].block_cache
          /\ ~SsTable_read_block_panics(cache_tables[key[1]].table, key[2])
          /\ cache_map[key] = SsTable_read_block(cache_tables[key[1]].table, key[2])

\* two tables share the cache, which holds different blocks for them under
\* the same block index, and the last read was served from the cache
C26_Witness ==
    /\ \A id \in CacheTableIds : cache_tables[id].block_cache
    /\ cache_last # <<>>
    /\ ~cache_last[1].filled
    /\ cache_last[1].id = 1
    /\ << 0, cache_last[1].block_idx >> \in DOMAIN cache_map
    /\ << 1, cache_last[1].block_idx >> \in DOMAIN cache_map
    /\ cache_map[<< 0, cache_last[1].block_idx >>] # cache_last[1].block

----------------------------------------------------------------------------
(* Specifications                                                          *)

SstIdle ==
    /\ sst_blocks = <<>>
    /\ table = <<>>
    /\ sst_iter = <<>>
    /\ sst_pc = "start"
    /\ sst_op = NoOp
    /\ sst_out = <<>>
    /\ sst_reads = <<>>

MergeIdle ==
    /\ inputs = <<>>
    /\ iters = {}
    /\ current = <<>>
    /\ merge_pc = "new"
    /\ merge_ret = "none"
    /\ merge_out = <<>>
    /\ merge_failed = {}
    /\ merge_calls = 0
    /\ merge_pops = 0

MemIdle ==
    MemInit

CacheIdle ==
    /\ cache_blocks = <<>>
    /\ cache_tables = <<>>
    /\ cache_map = BlockCache_new
    /\ cache_last = <<>>

FileIdle ==
    /\ file_bytes = <<>>
    /\ file_fault = "none"
    /\ file_table = <<>>
    /\ file_find = <<>>
    /\ file_block = <<>>

BlockSpecInit ==
    BlockInit /\ SstIdle /\ MergeIdle /\ MemIdle /\ FileIdle /\ CacheIdle

BlockSpecNext ==
    \/ BlockEncode
    \/ BlockDecode
    \/ BlockCreateAndSeekToFirst
    \/ \E key \in BlockSeekKeys : BlockCreateAndSeekToKey(key)
    \/ BlockSeekToFirst
    \/ \E key \in BlockSeekKeys : BlockSeekToKey(key)
    \/ BlockNext

BlockSpec ==
    BlockSpecInit /\ [][BlockSpecNext]_vars

SstSpecInit ==
    SstInit /\ BlockIdle /\ MergeIdle /\ MemIdle /\ FileIdle /\ CacheIdle

SstSpecNext ==
    \/ SstCreateAndSeekToFirst
    \/ \E key \in SstSeekKeys : SstCreateAndSeekToKey(key)
    \/ SstSeekToFirst
    \/ \E key \in SstSeekKeys : SstSeekToKey(key)
    \/ SstNext

SstSpec ==
    SstSpecInit /\ [][SstSpecNext]_vars

MergeSpecInit ==
    MergeInit /\ BlockIdle /\ SstIdle /\ MemIdle /\ FileIdle /\ CacheIdle

MergeSpecNext ==
    \/ MergeCreate
    \/ \E failing \in MergeFailures : MergeNext(failing)

MergeSpec ==
    MergeSpecInit /\ [][MergeSpecNext]_vars

MergeBytesSpecInit ==
    MergeBytesInit /\ BlockIdle /\ SstIdle /\ MemIdle /\ FileIdle /\ CacheIdle

MergeBytesSpecNext ==
    \/ MergeCreate
    \/ MergeNext({})

MergeBytesSpec ==
    MergeBytesSpecInit /\ [][MergeBytesSpecNext]_vars

FileSpecInit ==
    FileInit /\ BlockIdle /\ SstIdle /\ MergeIdle /\ MemIdle /\ CacheIdle

FileSpecNext ==
    \/ FileOpen
    \/ \E key \in SstSeekKeys : FileFindBlockIdx(key)
    \/ \E block_idx \in 0..(MaxBlocks - 1) : FileReadBlock(block_idx)

FileSpec ==
    FileSpecInit /\ [][FileSpecNext]_vars

CacheSpecInit ==
    CacheInit /\ BlockIdle /\ SstIdle /\ MergeIdle /\ MemIdle /\ FileIdle

CacheSpecNext ==
    \/ \E id \in CacheTableIds : \E block_idx \in 0..(MaxCacheBlocks - 1) :
          CacheReadBlockCached(id, block_idx)
    \/ \E id \in CacheTableIds : \E block_idx \in 0..(MaxCacheBlocks - 1) :
          CacheEvict(<< id, block_idx >>)

CacheSpec ==
    CacheSpecInit /\ [][CacheSpecNext]_vars

MemSpecInit ==
    MemInit /\ BlockIdle /\ SstIdle /\ MergeIdle /\ FileIdle /\ CacheIdle

MemSpecNext ==
    \/ \E t \in MemWriters : \E key \in MemKeys : MemPutBegin(t, key)
    \/ \E t \in MemWriters : MemPutInsert(t)
    \/ \E t \in MemWriters : MemPutAdd(t)
    \/ \E key \in MemKeys : MemGet(key)
    \/ \E lower \in MemBounds : \E upper \in MemBounds : MemScan(lower, upper)
    \/ MemNext
    \/ MemFlush

MemSpec ==
    MemSpecInit /\ [][MemSpecNext]_vars

============================================================================
